---- MODULE Spec2Model ----
(***************************************************************************)
(* Model of the message-relay backend: database.py (users, sessions,      *)
(* messages, activity_logs, device_tokens tables and the credential /     *)
(* session functions) and server.py (the Flask request handlers).         *)
(*                                                                         *)
(* Text values (usernames, passwords, emails, message bodies) are          *)
(* sequences of one-character strings, so that str.strip() and len() are   *)
(* computed as Python computes them.  A JSON field that is absent (Python  *)
(* None) is the value None.  A nullable integer/timestamp column holding    *)
(* SQL NULL is the value NULL; row ids and timestamps start at 1.          *)
(***************************************************************************)
EXTENDS Integers, Sequences, FiniteSets, TLC

VARIABLES
    users,          \* table users, in rowid order; id = position
    sessions,       \* table sessions, in rowid order
    messages,       \* table messages, in rowid order; id = position
    activity_logs,  \* table activity_logs, in rowid order
    device_tokens,  \* table device_tokens, in rowid order
    clock,          \* wall clock read by CURRENT_TIMESTAMP / datetime.now()
    resp,           \* last request served and the response returned for it
    pc,             \* per worker thread or client process: position in
                    \* the handler or client function it is running
    loc             \* per worker thread or client process: its locals

vars == <<users, sessions, messages, activity_logs, device_tokens, clock,
          resp, pc, loc>>

store == <<users, sessions, messages, activity_logs, device_tokens>>

----------------------------------------------------------------------------
(* Bounds of the exploration *)

MaxMessages == 2
MaxClock    == 2
MaxLog      == 2
MaxDevices  == 1

----------------------------------------------------------------------------
(* Values *)

None == <<"None">>
NULL == 0

Whitespace == {" ", "\t", "\n"}

Min(a, b) == IF a < b THEN a ELSE b

RECURSIVE LStrip(_)
LStrip(s) ==
    IF s = <<>> THEN s
    ELSE IF Head(s) \in Whitespace THEN LStrip(Tail(s)) ELSE s

RECURSIVE RStrip(_)
RStrip(s) ==
    IF s = <<>> THEN s
    ELSE IF s[Len(s)] \in Whitespace THEN RStrip(SubSeq(s, 1, Len(s) - 1))
    ELSE s

\* str.strip()
Strip(s) == RStrip(LStrip(s))

\* (data.get(key) or "").strip()
Field(v) == IF v = None THEN <<>> ELSE Strip(v)

\* (data.get("email") or "").strip() or None
EmailField(v) == IF Field(v) = <<>> THEN None ELSE Field(v)

alice    == <<"a", "l", "i", "c", "e">>
Alice    == <<"A", "l", "i", "c", "e">>
bob      == <<"b", "o", "b">>
al       == <<"a", "l">>
secret1  == <<"s", "e", "c", "r", "e", "t", "1">>
secret2  == <<"s", "e", "c", "r", "e", "t", "2">>
short    == <<"s", "h", "o", "r", "t">>
mailA    == <<"a", "@", "x">>
hi       == <<"h", "i">>
blank    == <<" ", " ">>

Pad(s) == <<" ">> \o s \o <<"\t">>

\* secrets.token_urlsafe(32) draws from this space, so the sessions table
\* never holds more rows than it has members; clients may send any of these
\* strings, or no token at all (None)
TokenSpace == {"t1", "t2"}
NoToken    == "None"
NoBody     == "NoBody"
Workers    == {"w1", "w2"}

----------------------------------------------------------------------------
(* database.py: credential functions *)

\* hashlib.pbkdf2_hmac("sha256", password, salt, 100000): an injective
\* function of (password, salt)
Pbkdf2(password, salt) == <<password, salt>>

\* the stored string "salt$hash"
HashPassword(password, salt) ==
    [salt |-> salt, hash |-> Pbkdf2(password, salt)]

VerifyPassword(stored_hash, password) ==
    Pbkdf2(password, stored_hash.salt) = stored_hash.hash

\* variant: the email column is not declared UNIQUE
UsersUniqueViolationUsernameOnly(us, username, email) ==
    \E i \in 1..Len(us) : us[i].username = username

\* variant: no UNIQUE constraint at all, duplicates are found by no one
UsersNoUniqueConstraint(us, username, email) == FALSE

\* UNIQUE constraints of table users: username UNIQUE, email UNIQUE (NULLs
\* are pairwise distinct)
UsersUniqueViolation(us, username, email) ==
    \E i \in 1..Len(us) :
        \/ us[i].username = username
        \/ (email # None /\ us[i].email = email)

\* variant: INSERT OR REPLACE, the row in conflict is overwritten
RegisterUserReplace(us, username, password, salt, email, now) ==
    LET row == [username      |-> username,
                password_hash |-> HashPassword(password, salt),
                email         |-> email,
                created_at    |-> now,
                last_login    |-> NULL,
                is_active     |-> TRUE]
    IN  IF \E i \in 1..Len(us) : us[i].username = username
        THEN [ok |-> TRUE, msg |-> "User registered successfully",
              users |-> [i \in 1..Len(us) |->
                            IF us[i].username = username THEN row
                            ELSE us[i]]]
        ELSE [ok |-> TRUE, msg |-> "User registered successfully",
              users |-> Append(us, row)]

RegisterUser(us, username, password, salt, email, now) ==
    IF UsersUniqueViolation(us, username, email)
    THEN [ok |-> FALSE, msg |-> "Username already exists", users |-> us]
    ELSE [ok |-> TRUE, msg |-> "User registered successfully",
          users |-> Append(us, [username      |-> username,
                                password_hash |-> HashPassword(password, salt),
                                email         |-> email,
                                created_at    |-> now,
                                last_login    |-> NULL,
                                is_active     |-> TRUE])]

\* SELECT ... FROM users WHERE username = ?   (0 when there is no row)
GetUserByUsername(us, username) ==
    IF \E i \in 1..Len(us) : us[i].username = username
    THEN CHOOSE i \in 1..Len(us) : us[i].username = username
    ELSE NULL

\* variant: sessions.token is not declared UNIQUE
SessionsNoUniqueConstraint(ss, token) == FALSE

\* UNIQUE constraint of sessions.token
SessionsUniqueViolation(ss, token) ==
    \E i \in 1..Len(ss) : ss[i].token = token

NewSession(user_id, token, now) ==
    [user_id |-> user_id, token |-> token, created_at |-> now,
     expires_at |-> NULL, is_valid |-> TRUE]

\* variant: an unknown username is reported as such
LoginUserReveal(us, ss, username, password, token, now) ==
    LET uid == IF \E i \in 1..Len(us) :
                      us[i].username = username /\ us[i].is_active
               THEN CHOOSE i \in 1..Len(us) :
                      us[i].username = username /\ us[i].is_active
               ELSE NULL
    IN  IF uid = NULL
        THEN [ok |-> FALSE, msg |-> "User not found", token |-> NoToken,
              users |-> us, sessions |-> ss]
        ELSE IF ~VerifyPassword(us[uid].password_hash, password)
        THEN [ok |-> FALSE, msg |-> "Invalid credentials", token |-> NoToken,
              users |-> us, sessions |-> ss]
        ELSE IF SessionsUniqueViolation(ss, token)
        THEN [ok |-> FALSE, msg |-> "UNIQUE constraint failed: sessions.token",
              token |-> NoToken, users |-> us, sessions |-> ss]
        ELSE [ok |-> TRUE, msg |-> "Login successful", token |-> token,
              users |-> [us EXCEPT ![uid].last_login = now],
              sessions |-> Append(ss, NewSession(uid, token, now))]

\* variant: a login invalidates the sessions the user already holds
LoginUserSingleSession(us, ss, username, password, token, now) ==
    LET uid == IF \E i \in 1..Len(us) :
                      us[i].username = username /\ us[i].is_active
               THEN CHOOSE i \in 1..Len(us) :
                      us[i].username = username /\ us[i].is_active
               ELSE NULL
    IN  IF uid = NULL
        THEN [ok |-> FALSE, msg |-> "Invalid credentials", token |-> NoToken,
              users |-> us, sessions |-> ss]
        ELSE IF ~VerifyPassword(us[uid].password_hash, password)
        THEN [ok |-> FALSE, msg |-> "Invalid credentials", token |-> NoToken,
              users |-> us, sessions |-> ss]
        ELSE IF SessionsUniqueViolation(ss, token)
        THEN [ok |-> FALSE, msg |-> "UNIQUE constraint failed: sessions.token",
              token |-> NoToken, users |-> us, sessions |-> ss]
        ELSE [ok |-> TRUE, msg |-> "Login successful", token |-> token,
              users |-> [us EXCEPT ![uid].last_login = now],
              sessions |-> Append(
                  [i \in 1..Len(ss) |->
                      IF ss[i].user_id = uid
                      THEN [ss[i] EXCEPT !.is_valid = FALSE]
                      ELSE ss[i]],
                  NewSession(uid, token, now))]

\* variant: last_login is written and committed before the password is
\* checked, and deactivated users are found too
LoginUserEarlyUpdate(us, ss, username, password, token, now) ==
    LET uid == GetUserByUsername(us, username)
    IN  IF uid = NULL
        THEN [ok |-> FALSE, msg |-> "Invalid credentials", token |-> NoToken,
              users |-> us, sessions |-> ss]
        ELSE IF ~VerifyPassword(us[uid].password_hash, password)
                  \/ SessionsUniqueViolation(ss, token)
        THEN [ok |-> FALSE, msg |-> "Invalid credentials", token |-> NoToken,
              users |-> [us EXCEPT ![uid].last_login = now],
              sessions |-> ss]
        ELSE [ok |-> TRUE, msg |-> "Login successful", token |-> token,
              users |-> [us EXCEPT ![uid].last_login = now],
              sessions |-> Append(ss, NewSession(uid, token, now))]

\* login_user: token is the value secrets.token_urlsafe(32) returned
LoginUser(us, ss, username, password, token, now) ==
    LET uid == IF \E i \in 1..Len(us) :
                      us[i].username = username /\ us[i].is_active
               THEN CHOOSE i \in 1..Len(us) :
                      us[i].username = username /\ us[i].is_active
               ELSE NULL
    IN  IF uid = NULL
        THEN [ok |-> FALSE, msg |-> "Invalid credentials", token |-> NoToken,
              users |-> us, sessions |-> ss]
        ELSE IF ~VerifyPassword(us[uid].password_hash, password)
        THEN [ok |-> FALSE, msg |-> "Invalid credentials", token |-> NoToken,
              users |-> us, sessions |-> ss]
        ELSE IF SessionsUniqueViolation(ss, token)
        \* IntegrityError before commit: the last_login update is rolled back
        THEN [ok |-> FALSE, msg |-> "UNIQUE constraint failed: sessions.token",
              token |-> NoToken, users |-> us, sessions |-> ss]
        ELSE [ok |-> TRUE, msg |-> "Login successful", token |-> token,
              users |-> [us EXCEPT ![uid].last_login = now],
              sessions |-> Append(ss, NewSession(uid, token, now))]

\* variant: WHERE is_valid = 1, the token is not compared
VerifySessionTokenAny(us, ss, token) ==
    IF \E i \in 1..Len(ss) : ss[i].is_valid
    THEN LET s == CHOOSE i \in 1..Len(ss) : ss[i].is_valid
             uid == ss[s].user_id
         IN  [valid |-> TRUE, id |-> uid,
              username |-> IF uid \in 1..Len(us) THEN us[uid].username
                           ELSE None]
    ELSE [valid |-> FALSE, id |-> NULL, username |-> None]

\* verify_session_token: (valid, user row with columns id, username);
\* the row is None (id NULL here) when users has no row with the session's
\* user_id, and the result is still (True, user)
VerifySessionToken(us, ss, token) ==
    IF \E i \in 1..Len(ss) : ss[i].token = token /\ ss[i].is_valid
    THEN LET s == CHOOSE i \in 1..Len(ss) :
                      ss[i].token = token /\ ss[i].is_valid
             uid == ss[s].user_id
         IN  IF uid \in 1..Len(us)
             THEN [valid |-> TRUE, id |-> uid, username |-> us[uid].username]
             ELSE [valid |-> TRUE, id |-> NULL, username |-> None]
    ELSE [valid |-> FALSE, id |-> NULL, username |-> None]

\* variant: the table keeps the newest entry only
LogActivityKeepLast(logs, user_id, action, details, status, logok) ==
    IF logok /\ Len(logs) < MaxLog
    THEN <<[user_id |-> user_id, action |-> action,
            details |-> details, ip_address |-> "REMOTE_ADDR",
            status |-> status]>>
    ELSE logs

\* log_activity: the insert either commits or raises, and the exception is
\* swallowed (logok = FALSE); a full log table refuses the insert
LogActivity(logs, user_id, action, details, status, logok) ==
    IF logok /\ Len(logs) < MaxLog
    THEN Append(logs, [user_id |-> user_id, action |-> action,
                       details |-> details, ip_address |-> "REMOTE_ADDR",
                       status |-> status])
    ELSE logs

----------------------------------------------------------------------------
(* server.py: request handlers, each served as one step *)

\* An environment env fixes what clients send and what the host does:
\*   usernames, passwords, emails, recipients, bodies : raw JSON text fields
\*   tokens : token values sent,  ids : message ids in the URL
\*   devs : device tokens sent,   limits, offsets : paging arguments
\*   salts : values of secrets.token_hex(32)
\*   logok : outcomes of the activity-log insert (TRUE commits, FALSE raises)
\*   dbok  : outcomes of the statements of register_user, login_user and
\*           send_message (TRUE: SQLite runs them, FALSE: it raises
\*           OperationalError)
\*   ticks : how far the clock moves between two requests
Now(env) == {Min(clock + d, MaxClock) : d \in env.ticks}

Response(op, request, status, msg, data) ==
    [op |-> op, req |-> request, status |-> status, msg |-> msg,
     data |-> data]

NoData == <<>>

\* str(e) of the sqlite3.OperationalError a busy database raises
DatabaseLocked == "database is locked"

\* str(e) of the TypeError raised by user["id"] or user['username'] when
\* user is None
NoneTypeError == "'NoneType' object is not subscriptable"

\* variant: the two length checks are missing
SignupErrorPresenceOnly(username, password) ==
    IF username = <<>> \/ password = <<>>
    THEN "Username and password required"
    ELSE ""

\* signup lines 36-47: the error the validation reports, "" when it passes
SignupError(username, password) ==
    IF username = <<>> \/ password = <<>>
    THEN "Username and password required"
    ELSE IF Len(password) < 6
    THEN "Password must be at least 6 characters"
    ELSE IF Len(username) < 3
    THEN "Username must be at least 3 characters"
    ELSE ""

Signup(env) ==
    \E ru \in env.usernames, rp \in env.passwords, re \in env.emails,
       salt \in env.salts, logok \in env.logok, dbok \in env.dbok,
       now \in Now(env) :
        LET username == Field(ru)
            password == Field(rp)
            email    == EmailField(re)
            request  == [username |-> username, password |-> password,
                         email |-> email]
            \* register_user lines 149-151: return False, str(e)
            r == IF dbok
                 THEN RegisterUser(users, username, password, salt, email,
                                   now)
                 ELSE [ok |-> FALSE, msg |-> DatabaseLocked, users |-> users]
        IN  /\ clock' = now
            /\ UNCHANGED <<sessions, messages, device_tokens, pc, loc>>
            /\ IF SignupError(username, password) # ""
               THEN /\ resp' = Response("signup", request, 400,
                                 SignupError(username, password), NoData)
                    /\ UNCHANGED <<users, activity_logs>>
               ELSE IF r.ok
               THEN /\ users' = r.users
                    /\ activity_logs' = LogActivity(activity_logs, NULL,
                                 "user_signup", username, "success", logok)
                    /\ resp' = Response("signup", request, 201, r.msg, NoData)
               ELSE /\ resp' = Response("signup", request, 400, r.msg, NoData)
                    /\ UNCHANGED <<users, activity_logs>>

Login(env) ==
    \E ru \in env.usernames, rp \in env.passwords, token \in TokenSpace,
       logok \in env.logok, dbok \in env.dbok, now \in Now(env) :
        LET username == Field(ru)
            password == Field(rp)
            request  == [username |-> username, password |-> password]
            \* login_user lines 189-191: return False, str(e), None
            r == IF dbok
                 THEN LoginUser(users, sessions, username, password, token,
                                now)
                 ELSE [ok |-> FALSE, msg |-> DatabaseLocked,
                       token |-> NoToken, users |-> users,
                       sessions |-> sessions]
        IN  /\ clock' = now
            /\ UNCHANGED <<messages, device_tokens, pc, loc>>
            /\ IF username = <<>> \/ password = <<>>
               THEN /\ resp' = Response("login", request, 400,
                                 "Username and password required", NoData)
                    /\ UNCHANGED <<users, sessions, activity_logs>>
               ELSE IF r.ok
               THEN /\ users' = r.users
                    /\ sessions' = r.sessions
                    /\ activity_logs' = LogActivity(activity_logs,
                                 GetUserByUsername(r.users, username),
                                 "user_login", None, "success", logok)
                    /\ resp' = Response("login", request, 200, r.msg,
                                 [token    |-> r.token,
                                  user_id  |-> GetUserByUsername(r.users,
                                                                 username),
                                  username |-> username])
               ELSE /\ activity_logs' = LogActivity(activity_logs, NULL,
                                 "failed_login_attempt", username, "failed",
                                 logok)
                    /\ resp' = Response("login", request, 401, r.msg, NoData)
                    /\ UNCHANGED <<users, sessions>>

\* variant: the INSERT binds sender and recipient the wrong way round
NewMessageSwapped(sender_id, recipient_id, message, now) ==
    [sender_id |-> recipient_id, recipient_id |-> sender_id,
     message |-> message, is_read |-> FALSE, read_at |-> NULL,
     created_at |-> now]

NewMessage(sender_id, recipient_id, message, now) ==
    [sender_id |-> sender_id, recipient_id |-> recipient_id,
     message |-> message, is_read |-> FALSE, read_at |-> NULL,
     created_at |-> now]

\* variant: the presence check of recipient and message is missing
SendErrorNoPresenceCheck(valid, recipient, message, recipient_user) ==
    IF ~valid THEN 401
    ELSE IF recipient_user = NULL THEN 404
    ELSE 200

\* variant: the fields are checked before the token
SendErrorFieldsFirst(valid, recipient, message, recipient_user) ==
    IF recipient = <<>> \/ message = <<>> THEN 400
    ELSE IF ~valid THEN 401
    ELSE IF recipient_user = NULL THEN 404
    ELSE 200

\* send_message lines 124-144: the status the checks lead to, in their order
SendError(valid, recipient, message, recipient_user) ==
    IF ~valid THEN 401
    ELSE IF recipient = <<>> \/ message = <<>> THEN 400
    ELSE IF recipient_user = NULL THEN 404
    ELSE 200

\* variant: log_activity lets the exception of its insert through
SendMessageLogRaises(env) ==
    \E token \in env.tokens, rr \in env.recipients, rm \in env.bodies,
       logok \in env.logok, dbok \in env.dbok, now \in Now(env) :
        LET recipient == Field(rr)
            message   == Field(rm)
            request   == [token |-> token, recipient |-> recipient,
                          message |-> message]
            user == VerifySessionToken(users, sessions, token)
            recipient_user == GetUserByUsername(users, recipient)
        IN  /\ clock' = now
            /\ UNCHANGED <<users, sessions, device_tokens, pc, loc>>
            /\ IF SendError(user.valid, recipient, message,
                            recipient_user) = 401
               THEN /\ resp' = Response("send_message", request, 401,
                                 "Unauthorized - Invalid or expired token",
                                 NoData)
                    /\ UNCHANGED <<messages, activity_logs>>
               ELSE IF user.id = NULL
               \* lines 134, 142, 150: user[...] raises on each path
               THEN /\ resp' = Response("send_message", request, 500,
                                 NoneTypeError, NoData)
                    /\ UNCHANGED <<messages, activity_logs>>
               ELSE IF SendError(user.valid, recipient, message,
                                 recipient_user) = 400
               THEN /\ resp' = Response("send_message", request, 400,
                                 "Recipient and message required", NoData)
                    /\ UNCHANGED <<messages, activity_logs>>
               ELSE IF SendError(user.valid, recipient, message,
                                 recipient_user) = 404
               THEN /\ resp' = Response("send_message", request, 404,
                                 "Recipient user not found", NoData)
                    /\ UNCHANGED <<messages, activity_logs>>
               ELSE IF ~dbok
               \* the INSERT raises: lines 168-170 answer str(e)
               THEN /\ resp' = Response("send_message", request, 500,
                                 DatabaseLocked, NoData)
                    /\ UNCHANGED <<messages, activity_logs>>
               ELSE /\ Len(messages) < MaxMessages
                    /\ messages' = Append(messages,
                           NewMessage(user.id, recipient_user, message, now))
                    /\ activity_logs' = LogActivity(activity_logs, user.id,
                                 "send_message", recipient, "success", logok)
                    \* "Message sent from <sender> to <recipient>"
                    /\ resp' = IF logok /\ Len(activity_logs) < MaxLog
                               THEN Response("send_message", request, 200,
                                             "Message sent", NoData)
                               ELSE Response("send_message", request, 500,
                                             "OperationalError", NoData)

SendMessage(env) ==
    \E token \in env.tokens, rr \in env.recipients, rm \in env.bodies,
       logok \in env.logok, dbok \in env.dbok, now \in Now(env) :
        LET recipient == Field(rr)
            message   == Field(rm)
            request   == [token |-> token, recipient |-> recipient,
                          message |-> message]
            user == VerifySessionToken(users, sessions, token)
            recipient_user == GetUserByUsername(users, recipient)
        IN  /\ clock' = now
            /\ UNCHANGED <<users, sessions, device_tokens, pc, loc>>
            /\ IF SendError(user.valid, recipient, message,
                            recipient_user) = 401
               THEN /\ resp' = Response("send_message", request, 401,
                                 "Unauthorized - Invalid or expired token",
                                 NoData)
                    /\ UNCHANGED <<messages, activity_logs>>
               ELSE IF user.id = NULL
               \* lines 134, 142, 150: user[...] raises on each path
               THEN /\ resp' = Response("send_message", request, 500,
                                 NoneTypeError, NoData)
                    /\ UNCHANGED <<messages, activity_logs>>
               ELSE IF SendError(user.valid, recipient, message,
                                 recipient_user) = 400
               THEN /\ resp' = Response("send_message", request, 400,
                                 "Recipient and message required", NoData)
                    /\ UNCHANGED <<messages, activity_logs>>
               ELSE IF SendError(user.valid, recipient, message,
                                 recipient_user) = 404
               THEN /\ resp' = Response("send_message", request, 404,
                                 "Recipient user not found", NoData)
                    /\ UNCHANGED <<messages, activity_logs>>
               ELSE IF ~dbok
               \* the INSERT raises: lines 168-170 answer str(e)
               THEN /\ resp' = Response("send_message", request, 500,
                                 DatabaseLocked, NoData)
                    /\ UNCHANGED <<messages, activity_logs>>
               ELSE /\ Len(messages) < MaxMessages
                    /\ messages' = Append(messages,
                           NewMessage(user.id, recipient_user, message, now))
                    /\ activity_logs' = LogActivity(activity_logs, user.id,
                                 "send_message", recipient, "success", logok)
                    \* "Message sent from <sender> to <recipient>"
                    /\ resp' = Response("send_message", request, 200,
                                 "Message sent", NoData)

\* variant: no ORDER BY clause, the rows come in any order
OrderingsAny(ids, descending) ==
    {f \in [1..Cardinality(ids) -> ids] :
        \A i, j \in 1..Cardinality(ids) : i # j => f[i] # f[j]}

\* the orders in which SELECT ... ORDER BY created_at may return the rows
\* ids: rows with equal created_at come in an order SQL leaves open
Orderings(ids, descending) ==
    {f \in [1..Cardinality(ids) -> ids] :
        /\ \A i, j \in 1..Cardinality(ids) : i # j => f[i] # f[j]
        /\ \A i, j \in 1..Cardinality(ids) :
              i < j => IF descending
                       THEN messages[f[i]].created_at
                               >= messages[f[j]].created_at
                       ELSE messages[f[i]].created_at
                               <= messages[f[j]].created_at}

\* variant: WHERE m.recipient_id = ?, read messages are returned too
UnreadIdsAll(ms, user_id) ==
    {i \in 1..Len(ms) : ms[i].recipient_id = user_id}

\* WHERE m.recipient_id = ? AND m.is_read = 0
UnreadIds(ms, user_id) ==
    {i \in 1..Len(ms) : ms[i].recipient_id = user_id /\ ~ms[i].is_read}

\* variant: the rows returned are marked read by the query itself
GetMessagesAutoRead(env) ==
    \E token \in env.tokens, logok \in env.logok, now \in Now(env) :
        LET request == [token |-> token]
            user == VerifySessionToken(users, sessions, token)
        IN  /\ clock' = now
            /\ UNCHANGED <<users, sessions, device_tokens, pc, loc>>
            /\ messages' = [i \in 1..Len(messages) |->
                  IF user.valid /\ i \in UnreadIds(messages, user.id)
                  THEN [messages[i] EXCEPT !.is_read = TRUE,
                                           !.read_at = now]
                  ELSE messages[i]]
            /\ IF ~user.valid
               THEN /\ resp' = Response("get_messages", request, 401,
                                 "Unauthorized - Invalid or expired token",
                                 NoData)
                    /\ UNCHANGED activity_logs
               ELSE IF user.id = NULL
               \* line 194: user["id"] raises
               THEN /\ resp' = Response("get_messages", request, 500,
                                 NoneTypeError, NoData)
                    /\ UNCHANGED activity_logs
               ELSE \E rows \in Orderings(UnreadIds(messages, user.id), TRUE) :
                    /\ activity_logs' = LogActivity(activity_logs, user.id,
                                 "get_messages", Len(rows), "success", logok)
                    /\ resp' = Response("get_messages", request, 200, "",
                         [k \in 1..Len(rows) |->
                            [id        |-> rows[k],
                             sender    |-> users[messages[rows[k]].sender_id]
                                               .username,
                             message   |-> messages[rows[k]].message,
                             timestamp |-> messages[rows[k]].created_at]])

GetMessages(env) ==
    \E token \in env.tokens, logok \in env.logok, now \in Now(env) :
        LET request == [token |-> token]
            user == VerifySessionToken(users, sessions, token)
        IN  /\ clock' = now
            /\ UNCHANGED <<users, sessions, messages, device_tokens, pc, loc>>
            /\ IF ~user.valid
               THEN /\ resp' = Response("get_messages", request, 401,
                                 "Unauthorized - Invalid or expired token",
                                 NoData)
                    /\ UNCHANGED activity_logs
               ELSE IF user.id = NULL
               \* line 194: user["id"] raises
               THEN /\ resp' = Response("get_messages", request, 500,
                                 NoneTypeError, NoData)
                    /\ UNCHANGED activity_logs
               ELSE \E rows \in Orderings(UnreadIds(messages, user.id), TRUE) :
                    /\ activity_logs' = LogActivity(activity_logs, user.id,
                                 "get_messages", Len(rows), "success", logok)
                    /\ resp' = Response("get_messages", request, 200, "",
                         [k \in 1..Len(rows) |->
                            [id        |-> rows[k],
                             sender    |-> users[messages[rows[k]].sender_id]
                                               .username,
                             message   |-> messages[rows[k]].message,
                             timestamp |-> messages[rows[k]].created_at]])

\* variant: WHERE id = ?, any authenticated user marks any message
UpdateReadAnyUser(ms, message_id, user_id, now) ==
    [i \in 1..Len(ms) |->
        IF i = message_id
        THEN [ms[i] EXCEPT !.is_read = TRUE, !.read_at = now]
        ELSE ms[i]]

\* variant: SET is_read = 1, read_at is not written
UpdateReadNoTimestamp(ms, message_id, user_id, now) ==
    [i \in 1..Len(ms) |->
        IF i = message_id /\ ms[i].recipient_id = user_id
        THEN [ms[i] EXCEPT !.is_read = TRUE]
        ELSE ms[i]]

\* variant: SET is_read = NOT is_read, a second request un-reads the message
UpdateReadToggle(ms, message_id, user_id, now) ==
    [i \in 1..Len(ms) |->
        IF i = message_id /\ ms[i].recipient_id = user_id
        THEN [ms[i] EXCEPT !.is_read = ~ms[i].is_read,
                           !.read_at = IF ms[i].is_read THEN NULL ELSE now]
        ELSE ms[i]]

\* variant: WHERE recipient_id = ?, every message of the user is marked
UpdateReadAllOfUser(ms, message_id, user_id, now) ==
    [i \in 1..Len(ms) |->
        IF ms[i].recipient_id = user_id
        THEN [ms[i] EXCEPT !.is_read = TRUE, !.read_at = now]
        ELSE ms[i]]

\* variant: DELETE FROM messages WHERE id = ? AND recipient_id = ?, the
\* message is consumed when it is read
UpdateReadDelete(ms, message_id, user_id, now) ==
    IF message_id \in 1..Len(ms) /\ ms[message_id].recipient_id = user_id
    THEN [i \in 1..Len(ms) - 1 |->
             IF i < message_id THEN ms[i] ELSE ms[i + 1]]
    ELSE ms

\* UPDATE messages SET is_read = 1, read_at = ? WHERE id = ? AND recipient_id = ?
UpdateRead(ms, message_id, user_id, now) ==
    [i \in 1..Len(ms) |->
        IF i = message_id /\ ms[i].recipient_id = user_id
        THEN [ms[i] EXCEPT !.is_read = TRUE, !.read_at = now]
        ELSE ms[i]]

MarkRead(env) ==
    \E token \in env.tokens \cup {NoBody}, message_id \in env.ids,
       logok \in env.logok, now \in Now(env) :
        LET request == [token |-> token, message_id |-> message_id]
            user == VerifySessionToken(users, sessions, token)
        IN  /\ clock' = now
            /\ UNCHANGED <<users, sessions, device_tokens, pc, loc>>
            /\ IF token = NoBody
               \* request.json is None: data.get raises, caught by except
               THEN /\ resp' = Response("mark_read", request, 500,
                                 "AttributeError", NoData)
                    /\ UNCHANGED <<messages, activity_logs>>
               ELSE IF ~user.valid
               THEN /\ resp' = Response("mark_read", request, 401,
                                 "Unauthorized", NoData)
                    /\ UNCHANGED <<messages, activity_logs>>
               ELSE IF user.id = NULL
               \* line 245: user["id"] raises before the UPDATE runs
               THEN /\ resp' = Response("mark_read", request, 500,
                                 NoneTypeError, NoData)
                    /\ UNCHANGED <<messages, activity_logs>>
               ELSE /\ messages' = UpdateRead(messages, message_id, user.id,
                                              now)
                    /\ activity_logs' = LogActivity(activity_logs, user.id,
                                 "mark_message_read", message_id, "success",
                                 logok)
                    /\ resp' = Response("mark_read", request, 200, "success",
                                 NoData)

\* WHERE (sender_id = a AND recipient_id = b) OR (sender_id = b AND recipient_id = a)
ConversationIds(ms, a, b) ==
    {i \in 1..Len(ms) :
        \/ (ms[i].sender_id = a /\ ms[i].recipient_id = b)
        \/ (ms[i].sender_id = b /\ ms[i].recipient_id = a)}

\* URL path segments: present, non-empty, taken as sent (no strip)
PathNames(env) == {u \in env.usernames : u # None /\ u # <<>>}

GetConversation(env) ==
    \E token \in env.tokens, recipient_username \in PathNames(env),
       logok \in env.logok, now \in Now(env) :
        LET request == [token |-> token, username |-> recipient_username]
            user == VerifySessionToken(users, sessions, token)
            recipient_user == GetUserByUsername(users, recipient_username)
        IN  /\ clock' = now
            /\ UNCHANGED <<users, sessions, messages, device_tokens, pc, loc>>
            /\ IF ~user.valid
               THEN /\ resp' = Response("get_conversation", request, 401,
                                 "Unauthorized", NoData)
                    /\ UNCHANGED activity_logs
               ELSE IF recipient_user = NULL
               THEN /\ resp' = Response("get_conversation", request, 404,
                                 "User not found", NoData)
                    /\ UNCHANGED activity_logs
               ELSE IF user.id = NULL
               \* line 293: user["id"] raises
               THEN /\ resp' = Response("get_conversation", request, 500,
                                 NoneTypeError, NoData)
                    /\ UNCHANGED activity_logs
               ELSE \E rows \in Orderings(ConversationIds(messages, user.id,
                                              recipient_user), FALSE) :
                    /\ activity_logs' = LogActivity(activity_logs, user.id,
                                 "view_conversation", recipient_username,
                                 "success", logok)
                    /\ resp' = Response("get_conversation", request, 200, "",
                         [k \in 1..Len(rows) |->
                            [id        |-> rows[k],
                             sender    |-> users[messages[rows[k]].sender_id]
                                               .username,
                             message   |-> messages[rows[k]].message,
                             is_read   |-> messages[rows[k]].is_read,
                             timestamp |-> messages[rows[k]].created_at]])

\* code points of the characters in use, in increasing order
Alphabet == <<"\t", "\n", " ", "1", "2", "@", "A", "a", "b", "c", "e", "h",
              "i", "l", "o", "r", "s", "t", "x">>

Ord(c) == CHOOSE k \in 1..Len(Alphabet) : Alphabet[k] = c

\* s < t as SQLite compares TEXT (BINARY collation)
RECURSIVE TextLess(_, _)
TextLess(s, t) ==
    IF t = <<>> THEN FALSE
    ELSE IF s = <<>> THEN TRUE
    ELSE IF Head(s) = Head(t) THEN TextLess(Tail(s), Tail(t))
    ELSE Ord(Head(s)) < Ord(Head(t))

\* variant: WHERE is_active = 1, the caller is not excluded
OtherUsersAll(us, user_id) ==
    LET ids == {i \in 1..Len(us) : us[i].is_active}
    IN  CHOOSE f \in [1..Cardinality(ids) -> ids] :
            /\ \A i, j \in 1..Cardinality(ids) : i # j => f[i] # f[j]
            /\ \A i, j \in 1..Cardinality(ids) :
                  i < j => TextLess(us[f[i]].username, us[f[j]].username)

\* WHERE is_active = 1 AND id != ? ORDER BY username ASC
OtherUsers(us, user_id) ==
    LET ids == {i \in 1..Len(us) : us[i].is_active /\ i # user_id}
    IN  CHOOSE f \in [1..Cardinality(ids) -> ids] :
            /\ \A i, j \in 1..Cardinality(ids) : i # j => f[i] # f[j]
            /\ \A i, j \in 1..Cardinality(ids) :
                  i < j => TextLess(us[f[i]].username, us[f[j]].username)

GetAllUsers(env) ==
    \E token \in env.tokens, now \in Now(env) :
        LET request == [token |-> token]
            user == VerifySessionToken(users, sessions, token)
        IN  /\ clock' = now
            /\ UNCHANGED <<store, pc, loc>>
            /\ IF ~user.valid
               THEN resp' = Response("get_all_users", request, 401,
                                     "Unauthorized", NoData)
               ELSE IF user.id = NULL
               \* line 349: user["id"] raises
               THEN resp' = Response("get_all_users", request, 500,
                                     NoneTypeError, NoData)
               ELSE resp' = Response("get_all_users", request, 200, "",
                       LET rows == OtherUsers(users, user.id)
                       IN  [k \in 1..Len(rows) |->
                              [id        |-> rows[k],
                               username  |-> users[rows[k]].username,
                               email     |-> users[rows[k]].email,
                               joined_at |-> users[rows[k]].created_at]])

\* columns of the row verify_session_token returns: SELECT id, username
SessionUserColumns == {"id", "username"}

\* columns get_user_profile reads from that row
ProfileColumns == {"id", "username", "email", "created_at", "last_login"}

GetUserProfile(env) ==
    \E token \in env.tokens, now \in Now(env) :
        LET request == [token |-> token]
            user == VerifySessionToken(users, sessions, token)
        IN  /\ clock' = now
            /\ UNCHANGED <<store, pc, loc>>
            /\ IF ~user.valid
               THEN resp' = Response("get_user_profile", request, 401,
                                     "Unauthorized", NoData)
               ELSE IF user.id = NULL
               \* line 388: user["id"] raises
               THEN resp' = Response("get_user_profile", request, 500,
                                     NoneTypeError, NoData)
               ELSE IF ~(ProfileColumns \subseteq SessionUserColumns)
               \* user["email"] raises IndexError, caught by except
               THEN resp' = Response("get_user_profile", request, 500,
                                     "IndexError", NoData)
               ELSE resp' = Response("get_user_profile", request, 200, "",
                       [id         |-> user.id,
                        username   |-> user.username,
                        email      |-> users[user.id].email,
                        created_at |-> users[user.id].created_at,
                        last_login |-> users[user.id].last_login])

\* INSERT OR REPLACE ... : the row violating UNIQUE(user_id, device_token)
\* is deleted, then the new row is inserted; AUTOINCREMENT gives it one
\* more than the largest id ever used, which is the id of the newest row
UpsertDevice(ds, user_id, device_token, now) ==
    LET keep == SelectSeq(ds, LAMBDA d : ~(d.user_id = user_id
                                  /\ d.device_token = device_token))
        next == IF ds = <<>> THEN 1 ELSE ds[Len(ds)].id + 1
    IN  Append(keep, [id |-> next, user_id |-> user_id,
                      device_token |-> device_token,
                      registered_at |-> now, last_used |-> NULL])

RegisterDevice(env) ==
    \E token \in env.tokens, device_token \in env.devs, now \in Now(env) :
        LET request == [token |-> token, device_token |-> device_token]
            user == VerifySessionToken(users, sessions, token)
        IN  /\ clock' = now
            /\ UNCHANGED <<users, sessions, messages, activity_logs, pc, loc>>
            /\ IF ~user.valid
               THEN /\ resp' = Response("register_device", request, 401,
                                 "Unauthorized", NoData)
                    /\ UNCHANGED device_tokens
               ELSE IF device_token = NoToken \/ device_token = ""
               THEN /\ resp' = Response("register_device", request, 400,
                                 "Device token required", NoData)
                    /\ UNCHANGED device_tokens
               ELSE IF user.id = NULL
               \* line 425: user["id"] raises
               THEN /\ resp' = Response("register_device", request, 500,
                                 NoneTypeError, NoData)
                    /\ UNCHANGED device_tokens
               ELSE /\ IF device_tokens = <<>> THEN TRUE
                       ELSE device_tokens[Len(device_tokens)].id < MaxDevices
                    /\ device_tokens' = UpsertDevice(device_tokens, user.id,
                                                     device_token, now)
                    /\ resp' = Response("register_device", request, 200,
                                 "success", NoData)

\* LIMIT limit OFFSET offset applied to the ordered rows: a negative limit
\* means no limit, a negative offset means 0
Page(rows, limit, offset) ==
    LET off  == IF offset < 0 THEN 0 ELSE offset
        last == IF limit < 0 THEN Len(rows) ELSE Min(Len(rows), off + limit)
    IN  SubSeq(rows, off + 1, last)

\* variant: the page is returned as the query ordered it
ReverseNone(q) == q

\* message_list[::-1]
Reverse(q) == [k \in 1..Len(q) |-> q[Len(q) + 1 - k]]

\* variant: offset + limit <= count
HasMoreInclusive(limit, offset, count) == offset + limit <= count

\* line 497: "has_more": offset + limit < count
HasMore(limit, offset, count) == offset + limit < count

GetConversationV2(env) ==
    \E token \in env.tokens, recipient_username \in PathNames(env),
       limit \in env.limits, offset \in env.offsets, now \in Now(env) :
        LET request == [token |-> token, username |-> recipient_username,
                        limit |-> limit, offset |-> offset]
            user == VerifySessionToken(users, sessions, token)
            recipient_user == GetUserByUsername(users, recipient_username)
        IN  /\ clock' = now
            /\ UNCHANGED <<store, pc, loc>>
            /\ IF ~user.valid
               THEN resp' = Response("get_conversation_v2", request, 401,
                                     "Unauthorized", NoData)
               ELSE IF recipient_user = NULL
               THEN resp' = Response("get_conversation_v2", request, 404,
                                     "User not found", NoData)
               ELSE IF user.id = NULL
               \* line 462: user["id"] raises
               THEN resp' = Response("get_conversation_v2", request, 500,
                                     NoneTypeError, NoData)
               ELSE \E rows \in Orderings(ConversationIds(messages, user.id,
                                              recipient_user), TRUE) :
                    LET count == Cardinality(ConversationIds(messages,
                                     user.id, recipient_user))
                        page  == Page(rows, limit, offset)
                    IN  resp' = Response("get_conversation_v2", request, 200,
                          "",
                          [conversation |-> Reverse(
                             [k \in 1..Len(page) |->
                               [id        |-> page[k],
                                sender    |-> users[messages[page[k]]
                                                  .sender_id].username,
                                is_own_message |->
                                    users[messages[page[k]].sender_id]
                                        .username = user.username,
                                message   |-> messages[page[k]].message,
                                is_read   |-> messages[page[k]].is_read,
                                timestamp |-> messages[page[k]].created_at]]),
                           total_messages |-> count,
                           has_more |-> HasMore(limit, offset, count)])

GetHealth(env) ==
    \E now \in Now(env) :
        /\ clock' = now
        /\ resp' = Response("health", <<>>, 200, "healthy", NoData)
        /\ UNCHANGED <<store, pc, loc>>

----------------------------------------------------------------------------
(* server.py signup served by concurrent worker threads: the handler's     *)
(* statements between two accesses to the store are one step                *)

NoLocals == [username |-> <<>>, password |-> <<>>, email |-> None,
             status |-> NULL, msg |-> ""]

\* lines 31-47: parse and validate
SignupReceive(env, w) ==
    \E ru \in env.usernames, rp \in env.passwords, re \in env.emails :
        LET username == Field(ru)
            password == Field(rp)
            email    == EmailField(re)
            l == [NoLocals EXCEPT !.username = username,
                                  !.password = password, !.email = email]
        IN  /\ pc[w] = "idle"
            /\ UNCHANGED <<store, clock, resp>>
            /\ IF username = <<>> \/ password = <<>>
               THEN /\ loc' = [loc EXCEPT ![w] = [l EXCEPT !.status = 400,
                              !.msg = "Username and password required"]]
                    /\ pc' = [pc EXCEPT ![w] = "respond"]
               ELSE IF Len(password) < 6
               THEN /\ loc' = [loc EXCEPT ![w] = [l EXCEPT !.status = 400,
                              !.msg = "Password must be at least 6 characters"]]
                    /\ pc' = [pc EXCEPT ![w] = "respond"]
               ELSE IF Len(username) < 3
               THEN /\ loc' = [loc EXCEPT ![w] = [l EXCEPT !.status = 400,
                              !.msg = "Username must be at least 3 characters"]]
                    /\ pc' = [pc EXCEPT ![w] = "respond"]
               ELSE /\ loc' = [loc EXCEPT ![w] = l]
                    /\ pc' = [pc EXCEPT ![w] = "register"]

\* line 50: register_user, one INSERT and its commit
SignupRegister(env, w) ==
    \E salt \in env.salts, now \in Now(env) :
        LET r == RegisterUser(users, loc[w].username, loc[w].password, salt,
                              loc[w].email, now)
        IN  /\ pc[w] = "register"
            /\ clock' = now
            /\ users' = r.users
            /\ loc' = [loc EXCEPT ![w].msg = r.msg,
                                  ![w].status = IF r.ok THEN 201 ELSE 400]
            /\ pc' = [pc EXCEPT ![w] = IF r.ok THEN "log" ELSE "respond"]
            /\ UNCHANGED <<sessions, messages, activity_logs, device_tokens,
                           resp>>

\* line 54: log_activity
SignupLog(env, w) ==
    \E logok \in env.logok :
        /\ pc[w] = "log"
        /\ activity_logs' = LogActivity(activity_logs, NULL, "user_signup",
                                        loc[w].username, "success", logok)
        /\ pc' = [pc EXCEPT ![w] = "respond"]
        /\ UNCHANGED <<users, sessions, messages, device_tokens, clock, resp,
                       loc>>

\* lines 39, 43, 47, 55, 58: the response leaves the server
SignupRespond(w) ==
    /\ pc[w] = "respond"
    /\ resp' = Response("signup", [username |-> loc[w].username,
                                   password |-> loc[w].password,
                                   email |-> loc[w].email],
                        loc[w].status, loc[w].msg, NoData)
    /\ pc' = [pc EXCEPT ![w] = "done"]
    /\ UNCHANGED <<store, clock, loc>>

----------------------------------------------------------------------------
(* server.py send_message and mark_read served by concurrent worker        *)
(* threads: each access to the store, with the statements that follow it   *)
(* up to the next access, is one step; a worker that has answered takes    *)
(* the next request                                                         *)

\* locals of send_message and mark_read
MessageLocals(token, recipient, message, message_id) ==
    [token |-> token, recipient |-> recipient, message |-> message,
     message_id |-> message_id, user_id |-> NULL, recipient_id |-> NULL]

\* the response of send_message to the request worker w is serving
SendResponse(l, status, msg) ==
    Response("send_message",
             [token |-> l.token, recipient |-> l.recipient,
              message |-> l.message],
             status, msg, NoData)

\* lines 119-136: parse, verify_session_token, presence of the fields
SendReceive(env, w) ==
    \E token \in env.tokens, rr \in env.recipients, rm \in env.bodies :
        LET recipient == Field(rr)
            message   == Field(rm)
            user == VerifySessionToken(users, sessions, token)
            l == MessageLocals(token, recipient, message, NULL)
        IN  /\ pc[w] = "idle"
            /\ UNCHANGED <<store, clock>>
            /\ IF ~user.valid
               THEN /\ resp' = SendResponse(l, 401,
                                 "Unauthorized - Invalid or expired token")
                    /\ UNCHANGED <<pc, loc>>
               ELSE IF recipient = <<>> \/ message = <<>>
               \* line 134 reads user['username'] before answering
               THEN /\ resp' = IF user.id = NULL
                                THEN SendResponse(l, 500, NoneTypeError)
                                ELSE SendResponse(l, 400,
                                         "Recipient and message required")
                    /\ UNCHANGED <<pc, loc>>
               ELSE /\ loc' = [loc EXCEPT ![w] = [l EXCEPT
                                                    !.user_id = user.id]]
                    /\ pc' = [pc EXCEPT ![w] = "send_lookup"]
                    /\ UNCHANGED resp

\* lines 138-144: get_user_by_username
SendLookup(w) ==
    LET recipient_user == GetUserByUsername(users, loc[w].recipient)
    IN  /\ pc[w] = "send_lookup"
        /\ UNCHANGED <<store, clock>>
        /\ IF recipient_user = NULL
           \* line 142 reads user['username'] before answering
           THEN /\ resp' = IF loc[w].user_id = NULL
                            THEN SendResponse(loc[w], 500, NoneTypeError)
                            ELSE SendResponse(loc[w], 404,
                                              "Recipient user not found")
                /\ pc' = [pc EXCEPT ![w] = "idle"]
                /\ loc' = [loc EXCEPT ![w] = NoLocals]
           ELSE /\ loc' = [loc EXCEPT ![w].recipient_id = recipient_user]
                /\ pc' = [pc EXCEPT ![w] = "send_insert"]
                /\ UNCHANGED resp

\* lines 146-153: the INSERT and its commit, or the exception it raises,
\* which lines 168-170 answer
SendInsert(env, w) ==
    \E dbok \in env.dbok, now \in Now(env) :
        /\ pc[w] = "send_insert"
        /\ clock' = now
        /\ UNCHANGED <<users, sessions, activity_logs, device_tokens>>
        /\ IF dbok /\ loc[w].user_id # NULL
           THEN /\ Len(messages) < MaxMessages
                /\ messages' = Append(messages,
                       NewMessage(loc[w].user_id, loc[w].recipient_id,
                                  loc[w].message, now))
                /\ pc' = [pc EXCEPT ![w] = "send_log"]
                /\ UNCHANGED <<loc, resp>>
           \* line 150 reads user["id"] before the INSERT runs
           ELSE /\ resp' = SendResponse(loc[w], 500,
                               IF loc[w].user_id = NULL THEN NoneTypeError
                               ELSE DatabaseLocked)
                /\ pc' = [pc EXCEPT ![w] = "idle"]
                /\ loc' = [loc EXCEPT ![w] = NoLocals]
                /\ UNCHANGED messages

\* lines 155-166: log_activity, then the response
SendLog(env, w) ==
    \E logok \in env.logok :
        /\ pc[w] = "send_log"
        /\ activity_logs' = LogActivity(activity_logs, loc[w].user_id,
                               "send_message", loc[w].recipient, "success",
                               logok)
        /\ resp' = SendResponse(loc[w], 200, "Message sent")
        /\ pc' = [pc EXCEPT ![w] = "idle"]
        /\ loc' = [loc EXCEPT ![w] = NoLocals]
        /\ UNCHANGED <<users, sessions, messages, device_tokens, clock>>

\* the response of mark_read to the request worker w is serving
MarkResponse(l, status, msg) ==
    Response("mark_read",
             [token |-> l.token, message_id |-> l.message_id],
             status, msg, NoData)

\* lines 231-241: parse, verify_session_token
MarkReceive(env, w) ==
    \E token \in env.tokens, message_id \in env.ids :
        LET user == VerifySessionToken(users, sessions, token)
            l == MessageLocals(token, <<>>, <<>>, message_id)
        IN  /\ pc[w] = "idle"
            /\ UNCHANGED <<store, clock>>
            /\ IF ~user.valid
               THEN /\ resp' = MarkResponse(l, 401, "Unauthorized")
                    /\ UNCHANGED <<pc, loc>>
               ELSE /\ loc' = [loc EXCEPT ![w] = [l EXCEPT
                                                    !.user_id = user.id]]
                    /\ pc' = [pc EXCEPT ![w] = "mark_update"]
                    /\ UNCHANGED resp

\* lines 243-249: the UPDATE and its commit
MarkUpdate(env, w) ==
    \E now \in Now(env) :
        /\ pc[w] = "mark_update"
        /\ clock' = now
        /\ UNCHANGED <<users, sessions, activity_logs, device_tokens>>
        /\ IF loc[w].user_id = NULL
           \* line 245 reads user["id"] before the UPDATE runs
           THEN /\ resp' = MarkResponse(loc[w], 500, NoneTypeError)
                /\ pc' = [pc EXCEPT ![w] = "idle"]
                /\ loc' = [loc EXCEPT ![w] = NoLocals]
                /\ UNCHANGED messages
           ELSE /\ messages' = UpdateRead(messages, loc[w].message_id,
                                          loc[w].user_id, now)
                /\ pc' = [pc EXCEPT ![w] = "mark_log"]
                /\ UNCHANGED <<resp, loc>>

\* lines 251-258: log_activity, then the response
MarkLog(env, w) ==
    \E logok \in env.logok :
        /\ pc[w] = "mark_log"
        /\ activity_logs' = LogActivity(activity_logs, loc[w].user_id,
                               "mark_message_read", loc[w].message_id,
                               "success", logok)
        /\ resp' = MarkResponse(loc[w], 200, "success")
        /\ pc' = [pc EXCEPT ![w] = "idle"]
        /\ loc' = [loc EXCEPT ![w] = NoLocals]
        /\ UNCHANGED <<users, sessions, messages, device_tokens, clock>>

----------------------------------------------------------------------------
(* server.py get_conversation_v2 served by a worker thread while other     *)
(* requests are served: each query of the handler is one step              *)

\* locals of get_conversation_v2
ConvLocals(token, recipient_username, limit, offset) ==
    [token |-> token, username |-> recipient_username, limit |-> limit,
     offset |-> offset, user_id |-> NULL, user_name |-> None,
     recipient_id |-> NULL, count |-> NULL]

\* the response of get_conversation_v2 to the request with locals l
ConvResponse(l, status, msg, data) ==
    Response("get_conversation_v2",
             [token |-> l.token, username |-> l.username,
              limit |-> l.limit, offset |-> l.offset],
             status, msg, data)

\* lines 441-448: parse, verify_session_token
ConvReceive(env, w) ==
    \E token \in env.tokens, recipient_username \in PathNames(env),
       limit \in env.limits, offset \in env.offsets :
        LET user == VerifySessionToken(users, sessions, token)
            l == ConvLocals(token, recipient_username, limit, offset)
        IN  /\ pc[w] = "idle"
            /\ UNCHANGED <<store, clock>>
            /\ IF ~user.valid
               THEN /\ resp' = ConvResponse(l, 401, "Unauthorized", NoData)
                    /\ UNCHANGED <<pc, loc>>
               ELSE /\ loc' = [loc EXCEPT ![w] =
                                 [l EXCEPT !.user_id = user.id,
                                           !.user_name = user.username]]
                    /\ pc' = [pc EXCEPT ![w] = "conv_lookup"]
                    /\ UNCHANGED resp

\* lines 450-452: get_user_by_username
ConvLookup(w) ==
    LET recipient_user == GetUserByUsername(users, loc[w].username)
    IN  /\ pc[w] = "conv_lookup"
        /\ UNCHANGED <<store, clock>>
        /\ IF recipient_user = NULL
           THEN /\ resp' = ConvResponse(loc[w], 404, "User not found",
                                        NoData)
                /\ pc' = [pc EXCEPT ![w] = "idle"]
                /\ loc' = [loc EXCEPT ![w] = NoLocals]
           ELSE IF loc[w].user_id = NULL
           \* line 462 reads user["id"]
           THEN /\ resp' = ConvResponse(loc[w], 500, NoneTypeError, NoData)
                /\ pc' = [pc EXCEPT ![w] = "idle"]
                /\ loc' = [loc EXCEPT ![w] = NoLocals]
           ELSE /\ loc' = [loc EXCEPT ![w].recipient_id = recipient_user]
                /\ pc' = [pc EXCEPT ![w] = "conv_count"]
                /\ UNCHANGED resp

\* lines 456-463: SELECT COUNT(*)
ConvCount(w) ==
    /\ pc[w] = "conv_count"
    /\ loc' = [loc EXCEPT ![w].count =
                 Cardinality(ConversationIds(messages, loc[w].user_id,
                                             loc[w].recipient_id))]
    /\ pc' = [pc EXCEPT ![w] = "conv_page"]
    /\ UNCHANGED <<store, clock, resp>>

\* lines 465-499: the page query, run after the count query with no
\* transaction around the two, and the response built from both
ConvPage(w) ==
    /\ pc[w] = "conv_page"
    /\ \E rows \in Orderings(ConversationIds(messages, loc[w].user_id,
                                              loc[w].recipient_id), TRUE) :
           LET page == Page(rows, loc[w].limit, loc[w].offset)
           IN  /\ resp' = ConvResponse(loc[w], 200, "",
                     [conversation |-> Reverse(
                        [k \in 1..Len(page) |->
                          [id        |-> page[k],
                           sender    |-> users[messages[page[k]].sender_id]
                                             .username,
                           is_own_message |->
                               users[messages[page[k]].sender_id].username
                                   = loc[w].user_name,
                           message   |-> messages[page[k]].message,
                           is_read   |-> messages[page[k]].is_read,
                           timestamp |-> messages[page[k]].created_at]]),
                      total_messages |-> loc[w].count,
                      has_more |-> HasMore(loc[w].limit, loc[w].offset,
                                           loc[w].count)])
               /\ pc' = [pc EXCEPT ![w] = "idle"]
               /\ loc' = [loc EXCEPT ![w] = NoLocals]
               /\ UNCHANGED <<store, clock>>

----------------------------------------------------------------------------
(* receiver_client.py: one receiver client talking to the server; each     *)
(* request with the server's handling of it is one step                    *)

Receiver == "receiver"

\* current_user_token; the messages the last check_messages returned, in
\* the order returned; how many of them the loop of
\* process_incoming_messages has gone through; the ids printed so far and
\* the ids played aloud so far
RecvLocals == [token |-> NoToken, batch |-> <<>>, pos |-> 0, shown |-> {},
               played |-> {}]

\* authenticate_user with bob's credentials: login_with_credentials keeps
\* the token of a 200 response; otherwise main returns
RecvLogin(env) ==
    \E token \in TokenSpace, logok \in env.logok, now \in Now(env) :
        LET request == [username |-> bob, password |-> secret1]
            r == LoginUser(users, sessions, bob, secret1, token, now)
        IN  /\ pc[Receiver] = "login"
            /\ clock' = now
            /\ UNCHANGED <<messages, device_tokens>>
            /\ IF r.ok
               THEN /\ users' = r.users
                    /\ sessions' = r.sessions
                    /\ activity_logs' = LogActivity(activity_logs,
                                 GetUserByUsername(r.users, bob),
                                 "user_login", None, "success", logok)
                    /\ resp' = Response("login", request, 200, r.msg,
                                 [token    |-> r.token,
                                  user_id  |-> GetUserByUsername(r.users, bob),
                                  username |-> bob])
                    /\ loc' = [loc EXCEPT ![Receiver].token = r.token]
                    /\ pc' = [pc EXCEPT ![Receiver] = "idle"]
               ELSE /\ activity_logs' = LogActivity(activity_logs, NULL,
                                 "failed_login_attempt", bob, "failed", logok)
                    /\ resp' = Response("login", request, 401, r.msg, NoData)
                    /\ pc' = [pc EXCEPT ![Receiver] = "exited"]
                    /\ UNCHANGED <<users, sessions, loc>>

\* check_messages and the head of process_incoming_messages: 200 gives the
\* batch to process, 401 ends the client, any other answer counts as no
\* message
RecvCheck(env) ==
    \E logok \in env.logok, now \in Now(env) :
        LET request == [token |-> loc[Receiver].token]
            user == VerifySessionToken(users, sessions, loc[Receiver].token)
        IN  /\ pc[Receiver] = "idle"
            /\ clock' = now
            /\ UNCHANGED <<users, sessions, messages, device_tokens>>
            /\ IF ~user.valid
               THEN /\ resp' = Response("get_messages", request, 401,
                                 "Unauthorized - Invalid or expired token",
                                 NoData)
                    /\ pc' = [pc EXCEPT ![Receiver] = "exited"]
                    /\ UNCHANGED <<activity_logs, loc>>
               ELSE IF user.id = NULL
               THEN /\ resp' = Response("get_messages", request, 500,
                                 NoneTypeError, NoData)
                    /\ loc' = [loc EXCEPT ![Receiver].batch = <<>>,
                                          ![Receiver].pos = 0]
                    /\ UNCHANGED <<activity_logs, pc>>
               ELSE \E rows \in Orderings(UnreadIds(messages, user.id), TRUE) :
                    /\ activity_logs' = LogActivity(activity_logs, user.id,
                                 "get_messages", Len(rows), "success", logok)
                    /\ resp' = Response("get_messages", request, 200, "",
                         [k \in 1..Len(rows) |->
                            [id        |-> rows[k],
                             sender    |-> users[messages[rows[k]].sender_id]
                                               .username,
                             message   |-> messages[rows[k]].message,
                             timestamp |-> messages[rows[k]].created_at]])
                    /\ loc' = [loc EXCEPT ![Receiver].batch = rows,
                                          ![Receiver].pos = 0]
                    /\ pc' = [pc EXCEPT ![Receiver] =
                                 IF rows = <<>> THEN "idle" ELSE "play"]

\* lines 184-202: the next message of the batch is printed; it is played
\* aloud when format_message_with_ai returns a text and text_to_speech does
\* not fail (both swallow their exceptions), and printed raw otherwise
RecvPlay ==
    \E spoken \in BOOLEAN :
        LET msg_id == loc[Receiver].batch[loc[Receiver].pos + 1]
        IN  /\ pc[Receiver] = "play"
            /\ loc' = [loc EXCEPT
                         ![Receiver].pos = @ + 1,
                         ![Receiver].shown = @ \cup {msg_id},
                         ![Receiver].played =
                             IF spoken THEN @ \cup {msg_id} ELSE @]
            /\ pc' = [pc EXCEPT ![Receiver] = "mark"]
            /\ UNCHANGED <<store, clock, resp>>

\* variant: the first mark_message_read of a batch marks every message of
\* the batch
RecvMarkBatch(env) ==
    \E logok \in env.logok, dbok \in env.dbok, now \in Now(env) :
        LET user == VerifySessionToken(users, sessions, loc[Receiver].token)
            ids  == {loc[Receiver].batch[k] :
                        k \in 1..Len(loc[Receiver].batch)}
        IN  /\ pc[Receiver] = "mark"
            /\ clock' = now
            /\ UNCHANGED <<users, sessions, device_tokens, loc,
                           activity_logs>>
            /\ messages' = [i \in 1..Len(messages) |->
                               IF i \in ids /\ messages[i].recipient_id
                                                  = user.id
                               THEN [messages[i] EXCEPT !.is_read = TRUE,
                                                        !.read_at = now]
                               ELSE messages[i]]
            /\ resp' = Response("mark_read",
                           [token |-> loc[Receiver].token,
                            message_id |-> loc[Receiver].batch[
                                               loc[Receiver].pos]],
                           200, "success", NoData)
            /\ pc' = [pc EXCEPT ![Receiver] =
                         IF loc[Receiver].pos = Len(loc[Receiver].batch)
                         THEN "idle" ELSE "play"]

\* line 205 and mark_message_read: POST /mark_read/<id> for the message just
\* played; any answer, also a failure, is only logged and the loop goes on
RecvMark(env) ==
    \E logok \in env.logok, dbok \in env.dbok, now \in Now(env) :
        LET message_id == loc[Receiver].batch[loc[Receiver].pos]
            request == [token |-> loc[Receiver].token,
                        message_id |-> message_id]
            user == VerifySessionToken(users, sessions, loc[Receiver].token)
        IN  /\ pc[Receiver] = "mark"
            /\ clock' = now
            /\ UNCHANGED <<users, sessions, device_tokens, loc>>
            /\ IF ~user.valid
               THEN /\ resp' = Response("mark_read", request, 401,
                                 "Unauthorized", NoData)
                    /\ UNCHANGED <<messages, activity_logs>>
               ELSE IF user.id = NULL
               THEN /\ resp' = Response("mark_read", request, 500,
                                 NoneTypeError, NoData)
                    /\ UNCHANGED <<messages, activity_logs>>
               ELSE IF ~dbok
               THEN /\ resp' = Response("mark_read", request, 500,
                                 DatabaseLocked, NoData)
                    /\ UNCHANGED <<messages, activity_logs>>
               ELSE /\ messages' = UpdateRead(messages, message_id, user.id,
                                              now)
                    /\ activity_logs' = LogActivity(activity_logs, user.id,
                                 "mark_message_read", message_id, "success",
                                 logok)
                    /\ resp' = Response("mark_read", request, 200, "success",
                                 NoData)
            /\ pc' = [pc EXCEPT ![Receiver] =
                         IF loc[Receiver].pos = Len(loc[Receiver].batch)
                         THEN "idle" ELSE "play"]

\* the client is stopped wherever it is (Ctrl+C, kill, crash, or the end of
\* mode 1) and started again later: main begins with authenticate_user
RecvStop ==
    /\ pc[Receiver] \in {"idle", "play", "mark"}
    /\ pc' = [pc EXCEPT ![Receiver] = "login"]
    /\ loc' = [loc EXCEPT ![Receiver].token = NoToken]
    /\ UNCHANGED <<store, clock, resp>>

----------------------------------------------------------------------------
(* Specifications *)

\* init_db on an empty database file; no request served yet
Init ==
    /\ users = <<>>
    /\ sessions = <<>>
    /\ messages = <<>>
    /\ activity_logs = <<>>
    /\ device_tokens = <<>>
    /\ clock = 1
    /\ resp = Response("none", <<>>, NULL, "", NoData)
    /\ pc = [w \in Workers |-> "idle"]
    /\ loc = [w \in Workers |-> NoLocals]

\* clients exercising credentials and tokens at every endpoint; they name
\* no recipient, so no message is ever stored
EnvAuth ==
    [usernames  |-> {None, al, Pad(alice), Alice},
     passwords  |-> {None, short, Pad(secret1), secret2},
     emails     |-> {None, blank, Pad(mailA)},
     recipients |-> {None},
     bodies     |-> {hi},
     tokens     |-> TokenSpace \cup {NoToken},
     ids        |-> {1},
     devs       |-> {NoToken},
     limits     |-> {1},
     offsets    |-> {0},
     salts      |-> {"s1"},
     logok      |-> {FALSE},
     dbok       |-> {TRUE},
     ticks      |-> {0}]

NextAuth ==
    \/ Signup(EnvAuth)
    \/ Login(EnvAuth)
    \/ SendMessage(EnvAuth)
    \/ GetMessages(EnvAuth)
    \/ MarkRead(EnvAuth)
    \/ GetConversation(EnvAuth)
    \/ GetAllUsers(EnvAuth)
    \/ GetUserProfile(EnvAuth)
    \/ RegisterDevice(EnvAuth)
    \/ GetConversationV2(EnvAuth)
    \/ GetHealth(EnvAuth)

SpecAuth == Init /\ [][NextAuth]_vars

\* clients with good credentials exchanging messages
EnvMsg ==
    [usernames  |-> {alice, Pad(bob)},
     passwords  |-> {secret1},
     emails     |-> {None},
     recipients |-> {alice, Pad(bob), Alice},
     bodies     |-> {Pad(hi)},
     tokens     |-> TokenSpace \cup {NoToken},
     ids        |-> 1..MaxMessages,
     devs       |-> {NoToken},
     limits     |-> {1},
     offsets    |-> {0},
     salts      |-> {"s1"},
     logok      |-> {FALSE},
     dbok       |-> {TRUE},
     ticks      |-> {0}]

NextMsg ==
    \/ Signup(EnvMsg)
    \/ Login(EnvMsg)
    \/ SendMessage(EnvMsg)
    \/ GetMessages(EnvMsg)
    \/ MarkRead(EnvMsg)

SpecMsg == Init /\ [][NextMsg]_vars

\* two signup requests in flight at once
EnvRace ==
    [EnvAuth EXCEPT !.usernames = {al, alice, Pad(alice), bob},
                    !.passwords = {secret1, secret2},
                    !.emails    = {None, mailA},
                    !.logok     = {TRUE, FALSE},
                    !.ticks     = {0, 1}]

NextRace ==
    \E w \in Workers :
        \/ SignupReceive(EnvRace, w)
        \/ SignupRegister(EnvRace, w)
        \/ SignupLog(EnvRace, w)
        \/ SignupRespond(w)

SpecRace == Init /\ [][NextRace]_vars

\* two users; whoever holds token t1 writes to bob and the first message is
\* marked read, time passing before a send or a mark_read, while accounts
\* and sessions are set up and inboxes are read without delay
EnvQuick ==
    [EnvMsg EXCEPT !.recipients = {Pad(bob)},
                   !.tokens     = TokenSpace]

EnvTime == [EnvQuick EXCEPT !.ticks = {0, 1},
                            !.ids   = {1}]

EnvTimeSend == [EnvTime EXCEPT !.tokens = {"t1"}]

NextTime ==
    \/ Signup(EnvQuick)
    \/ Login(EnvQuick)
    \/ SendMessage(EnvTimeSend)
    \/ GetMessages(EnvQuick)
    \/ MarkRead(EnvTime)

SpecTime == Init /\ [][NextTime]_vars

\* two users reading their conversations, whole and by pages; all requests
\* arrive within one tick of the clock
EnvConv ==
    [EnvMsg EXCEPT !.usernames  = {alice, bob},
                   !.recipients = {alice, bob},
                   !.tokens     = TokenSpace,
                   !.limits     = {0 - 1, 1, 2},
                   !.offsets    = {0, 1}]

NextConv ==
    \/ Signup(EnvConv)
    \/ Login(EnvConv)
    \/ SendMessage(EnvConv)
    \/ GetConversation(EnvConv)
    \/ GetConversationV2(EnvConv)

SpecConv == Init /\ [][NextConv]_vars

\* senders with good and bad tokens, recipients and bodies
EnvSend ==
    [EnvMsg EXCEPT !.recipients = {None, blank, Pad(bob)},
                   !.bodies     = {None, blank, Pad(hi)}]

NextSend ==
    \/ Signup(EnvSend)
    \/ Login(EnvSend)
    \/ SendMessage(EnvSend)
    \/ GetMessages(EnvSend)

SpecSend == Init /\ [][NextSend]_vars

\* one user writing to herself while the activity-log insert sometimes
\* fails
EnvLog ==
    [EnvMsg EXCEPT !.usernames  = {alice},
                   !.recipients = {alice},
                   !.tokens     = TokenSpace,
                   !.ids        = {1},
                   !.logok      = {TRUE, FALSE}]

NextLog ==
    \/ Signup(EnvLog)
    \/ Login(EnvLog)
    \/ SendMessage(EnvLog)
    \/ GetMessages(EnvLog)
    \/ MarkRead(EnvLog)

SpecLog == Init /\ [][NextLog]_vars

\* two users signing up, logging in and writing to bob while the database
\* is sometimes busy
EnvFault == [EnvQuick EXCEPT !.dbok = {TRUE, FALSE}]

NextFault ==
    \/ Signup(EnvFault)
    \/ Login(EnvFault)
    \/ SendMessage(EnvFault)

SpecFault == Init /\ [][NextFault]_vars

\* alice and bob, each through whatever sessions they hold, write to bob
\* and mark messages read, two requests in flight at once
EnvConc ==
    [EnvMsg EXCEPT !.usernames  = {alice, bob},
                   !.recipients = {bob},
                   !.bodies     = {hi},
                   !.ids        = {1},
                   !.tokens     = TokenSpace]

\* the INSERT of a send finds the database busy now and then
EnvConcInsert == [EnvConc EXCEPT !.dbok = {TRUE, FALSE}]

NextConc ==
    \/ Signup(EnvConc)
    \/ Login(EnvConc)
    \/ \E w \in Workers :
          \/ SendReceive(EnvConc, w)
          \/ SendLookup(w)
          \/ SendInsert(EnvConcInsert, w)
          \/ SendLog(EnvConc, w)
          \/ MarkReceive(EnvConc, w)
          \/ MarkUpdate(EnvConc, w)
          \/ MarkLog(EnvConc, w)

SpecConc == Init /\ [][NextConc]_vars

\* two users: whoever holds token t1 writes to either user, the clock
\* ticking before each of these sends, and reads the conversations in one
\* page; whoever holds token t2 writes to alice within the tick of the
\* message before
EnvPage ==
    [EnvMsg EXCEPT !.usernames  = {alice, bob},
                   !.recipients = {alice, bob},
                   !.tokens     = {"t1"},
                   !.limits     = {0 - 1},
                   !.offsets    = {0}]

EnvPageSend == [EnvPage EXCEPT !.ticks = {1}]

EnvPageReply == [EnvPage EXCEPT !.tokens = {"t2"}, !.recipients = {alice}]

NextPage ==
    \/ Signup(EnvPage)
    \/ Login(EnvPage)
    \/ SendMessage(EnvPageSend)
    \/ SendMessage(EnvPageReply)
    \/ GetConversationV2(EnvPage)

SpecPage == Init /\ [][NextPage]_vars

\* the server started on a database file that already holds rows, which
\* init_db keeps (CREATE TABLE IF NOT EXISTS): alice, active, and bob,
\* deactivated, both stored at time 1 with password secret1
StoredUsers ==
    <<[username      |-> alice,
       password_hash |-> HashPassword(secret1, "s1"),
       email         |-> None,
       created_at    |-> 1,
       last_login    |-> NULL,
       is_active     |-> TRUE],
      [username      |-> bob,
       password_hash |-> HashPassword(secret1, "s1"),
       email         |-> None,
       created_at    |-> 1,
       last_login    |-> NULL,
       is_active     |-> FALSE]>>

\* alice and bob, both active
RegisteredUsers == [StoredUsers EXCEPT ![2].is_active = TRUE]

\* one stored session with token t1 of a user in uids, valid or not, with
\* no expiry or one that passed at time 1
StoredSessions(uids) ==
    {<<[user_id |-> u, token |-> "t1", created_at |-> 1, expires_at |-> e,
        is_valid |-> v]>> : u \in uids, e \in {NULL, 1}, v \in BOOLEAN}

InitStored ==
    /\ users = StoredUsers
    /\ sessions \in StoredSessions({1, 2})
    /\ messages = <<>>
    /\ activity_logs = <<>>
    /\ device_tokens = <<>>
    /\ clock = 2
    /\ resp = Response("none", <<>>, NULL, "", NoData)
    /\ pc = [w \in Workers |-> "idle"]
    /\ loc = [w \in Workers |-> NoLocals]

\* logins of alice, bob and an unknown user with a right and a wrong
\* password, and requests with the stored token t1 and with the token a
\* login may have issued
EnvStored ==
    [EnvMsg EXCEPT !.usernames  = {alice, bob, al},
                   !.passwords  = {secret1, secret2},
                   !.recipients = {alice},
                   !.tokens     = TokenSpace,
                   !.ids        = {1},
                   !.ticks      = {0, 1}]

NextStored ==
    \/ Login(EnvStored)
    \/ SendMessage(EnvStored)
    \/ GetMessages(EnvStored)
    \/ MarkRead(EnvStored)

SpecStored == InitStored /\ [][NextStored]_vars

\* the stored session belongs to alice or to a user whose row is gone
\* (id 3): sessions.user_id is a FOREIGN KEY, which SQLite does not enforce
\* unless PRAGMA foreign_keys is set, and no code sets it
InitOrphan ==
    /\ users = StoredUsers
    /\ sessions \in StoredSessions({1, 3})
    /\ messages = <<>>
    /\ activity_logs = <<>>
    /\ device_tokens = <<>>
    /\ clock = 2
    /\ resp = Response("none", <<>>, NULL, "", NoData)
    /\ pc = [w \in Workers |-> "idle"]
    /\ loc = [w \in Workers |-> NoLocals]

\* requests to every token-protected endpoint with the stored token, an
\* unknown token or none, naming alice or nobody known
EnvOrphan ==
    [EnvMsg EXCEPT !.usernames  = {alice, al},
                   !.recipients = {alice, al},
                   !.bodies     = {None, hi},
                   !.tokens     = {"t1", "t2", NoToken},
                   !.ids        = {1},
                   !.devs       = {NoToken, "d1"}]

NextOrphan ==
    \/ SendMessage(EnvOrphan)
    \/ GetMessages(EnvOrphan)
    \/ MarkRead(EnvOrphan)
    \/ GetConversation(EnvOrphan)
    \/ GetAllUsers(EnvOrphan)
    \/ GetUserProfile(EnvOrphan)
    \/ RegisterDevice(EnvOrphan)
    \/ GetConversationV2(EnvOrphan)

SpecOrphan == InitOrphan /\ [][NextOrphan]_vars

\* alice and bob are registered and alice holds a session (token t0); the
\* receiver client has just been started for bob
InitRecv ==
    /\ users = RegisteredUsers
    /\ sessions = <<NewSession(1, "t0", 1)>>
    /\ messages = <<>>
    /\ activity_logs = <<>>
    /\ device_tokens = <<>>
    /\ clock = 1
    /\ resp = Response("none", <<>>, NULL, "", NoData)
    /\ pc = [p \in {Receiver} |-> "login"]
    /\ loc = [p \in {Receiver} |-> RecvLocals]

\* alice writes to bob, the clock ticking or not; the UPDATE of a mark_read
\* finds the database busy now and then
EnvRecv ==
    [EnvMsg EXCEPT !.usernames  = {alice},
                   !.recipients = {bob},
                   !.bodies     = {hi},
                   !.tokens     = {"t0"},
                   !.dbok       = {TRUE, FALSE}]

EnvRecvSend == [EnvRecv EXCEPT !.dbok = {TRUE}, !.ticks = {0, 1}]

NextRecv ==
    \/ SendMessage(EnvRecvSend)
    \/ RecvLogin(EnvRecv)
    \/ RecvCheck(EnvRecv)
    \/ RecvPlay
    \/ RecvMark(EnvRecv)
    \/ RecvStop

SpecRecv == InitRecv /\ [][NextRecv]_vars

\* alice and bob are registered and each holds a session; no request is
\* being served
InitSnap ==
    /\ users = RegisteredUsers
    /\ sessions = <<NewSession(1, "t1", 1), NewSession(2, "t2", 1)>>
    /\ messages = <<>>
    /\ activity_logs = <<>>
    /\ device_tokens = <<>>
    /\ clock = 1
    /\ resp = Response("none", <<>>, NULL, "", NoData)
    /\ pc = [w \in Workers |-> "idle"]
    /\ loc = [w \in Workers |-> NoLocals]

\* bob (token t2) writes to alice while alice (token t1) reads her
\* conversation with bob, whole or one message a page, or names a user
\* nobody knows
EnvSnap ==
    [EnvMsg EXCEPT !.usernames  = {bob, al},
                   !.tokens     = {"t1", NoToken},
                   !.limits     = {0 - 1, 1},
                   !.offsets    = {0}]

EnvSnapSend ==
    [EnvMsg EXCEPT !.recipients = {alice},
                   !.bodies     = {hi},
                   !.tokens     = {"t2"}]

NextSnap ==
    \/ SendMessage(EnvSnapSend)
    \/ \E w \in Workers :
          \/ ConvReceive(EnvSnap, w)
          \/ ConvLookup(w)
          \/ ConvCount(w)
          \/ ConvPage(w)

SpecSnap == InitSnap /\ [][NextSnap]_vars

----------------------------------------------------------------------------
(* Properties *)

Usernames(us) == {us[i].username : i \in 1..Len(us)}
Emails(us)    == {us[i].email : i \in 1..Len(us)} \ {None}
Issued(ss)    == {ss[i].token : i \in 1..Len(ss)}

\* the request passes the checks of signup lines 37-47
ValidSignup(request) ==
    /\ request.username # <<>>
    /\ request.password # <<>>
    /\ Len(request.password) >= 6
    /\ Len(request.username) >= 3

\* the user the last request's token resolves to
Caller == VerifySessionToken(users, sessions, resp.req.token)

\* the message the mark_read request names exists and is addressed to uid
IsRecipient(ms, message_id, uid) ==
    /\ message_id \in 1..Len(ms)
    /\ ms[message_id].recipient_id = uid

\* C1: in every reachable state no two stored users have the same username
\* (compared as strings, case-sensitively) and no two stored users have the
\* same non-null email.
C1_UniqueUsers ==
    \A i, j \in 1..Len(users) :
        i # j => /\ users[i].username # users[j].username
                 /\ (users[i].email # None
                        => users[i].email # users[j].email)

\* two users whose names differ only in case are stored, one holds an email,
\* and a signup has just been refused as a duplicate
C1_Witness ==
    /\ {alice, Alice} \subseteq Usernames(users)
    /\ Emails(users) # {}
    /\ resp.op = "signup" /\ resp.status = 400
    /\ resp.msg = "Username already exists"

\* C2 as stated: every signup with a valid username that is not yet stored
\* succeeds with 201, and a valid signup of a stored username is refused with
\* 400 and leaves the users table unchanged.
C2_Original ==
    [][resp'.op = "signup" /\ ValidSignup(resp'.req) =>
         IF resp'.req.username \in Usernames(users)
         THEN resp'.status = 400 /\ users' = users
         ELSE resp'.status = 201]_vars

\* C2 amended: a valid signup of a username that is not yet stored, sent
\* with no email or with an email no stored user holds, succeeds with 201
\* and adds exactly that user; a valid signup of a stored username is
\* refused with 400 "Username already exists" and leaves the users table,
\* stored password hashes included, unchanged.
C2_Signup ==
    [][resp'.op = "signup" /\ ValidSignup(resp'.req) =>
         IF resp'.req.username \in Usernames(users)
         THEN /\ resp'.status = 400
              /\ resp'.msg = "Username already exists"
              /\ users' = users
         ELSE IF resp'.req.email \in Emails(users)
         THEN TRUE
         ELSE /\ resp'.status = 201
              /\ Len(users') = Len(users) + 1
              /\ SubSeq(users', 1, Len(users)) = users
              /\ users'[Len(users')].username = resp'.req.username
              /\ VerifyPassword(users'[Len(users')].password_hash,
                                resp'.req.password)]_vars

\* two users are stored and the first one's name has just been signed up
\* again, with another password than the stored one, and was refused
C2_Witness ==
    /\ Len(users) = 2
    /\ resp.op = "signup" /\ resp.status = 400
    /\ resp.req.username = users[1].username
    /\ ValidSignup(resp.req)
    /\ ~VerifyPassword(users[1].password_hash, resp.req.password)

\* a worker whose request went through register_user
Registered(w) == pc[w] \in {"log", "respond", "done"} /\ loc[w].status = 201
Rejected(w)   == /\ pc[w] \in {"respond", "done"} /\ loc[w].status = 400
                 /\ loc[w].msg = "Username already exists"

\* C3: when two signup requests for the same username run concurrently on
\* an empty users table, under every interleaving no two stored users have
\* that username, and once both requests are through register_user exactly
\* one of them has succeeded and the other was rejected as a duplicate.
C3_ConcurrentSignup ==
    /\ \A i, j \in 1..Len(users) :
          i # j => users[i].username # users[j].username
    /\ \A w1, w2 \in Workers :
          (/\ w1 # w2
           /\ loc[w1].username = loc[w2].username
           /\ Registered(w1) \/ Rejected(w1)
           /\ Registered(w2) \/ Rejected(w2))
          => (Registered(w1) /\ Rejected(w2))
                \/ (Rejected(w1) /\ Registered(w2))

\* both workers have answered requests for the same username: one 201, one
\* duplicate
C3_Witness ==
    /\ pc["w1"] = "done" /\ pc["w2"] = "done"
    /\ loc["w1"].username = loc["w2"].username
    /\ loc["w1"].status = 201
    /\ loc["w2"].status = 400
    /\ Len(users) = 1

\* every endpoint other than /signup, /login and /health
Protected == {"send_message", "get_messages", "mark_read", "get_conversation",
              "get_all_users", "get_user_profile", "register_device",
              "get_conversation_v2"}

\* C4: the token a successful login returns resolves to the id of the user
\* who logged in; a token that no login has issued never resolves, and every
\* token-protected endpoint answers a request carrying such a token with 401.
C4_LoginResolves ==
    /\ [](resp.op = "login" /\ resp.status = 200 =>
            LET v == VerifySessionToken(users, sessions, resp.data.token)
            IN  /\ v.valid
                /\ v.id = resp.data.user_id
                /\ v.id \in 1..Len(users)
                /\ users[v.id].username = resp.req.username
                /\ VerifyPassword(users[v.id].password_hash,
                                  resp.req.password))
    /\ [](\A t \in TokenSpace \cup {NoToken} :
            t \notin Issued(sessions)
                => ~VerifySessionToken(users, sessions, t).valid)
    /\ [][(/\ resp'.op \in Protected
           /\ resp'.req.token # NoBody
           /\ resp'.req.token \notin Issued(sessions))
          => resp'.status = 401 /\ store' = store]_vars

\* the second user has just logged in while the first one holds a session
C4_Witness ==
    /\ resp.op = "login" /\ resp.status = 200
    /\ Len(sessions) = 2
    /\ sessions[1].user_id # sessions[2].user_id
    /\ resp.data.token = sessions[2].token

\* C5: each stored token is in exactly one session row; a login binds the
\* new token to the user who logged in, and no later request (signup, login,
\* send, mark-read, inbox query) changes the user a token resolves to.
C5_TokenBinding ==
    /\ [](\A i, j \in 1..Len(sessions) :
            i # j => sessions[i].token # sessions[j].token)
    /\ [][\A t \in TokenSpace :
            VerifySessionToken(users, sessions, t).valid
                => VerifySessionToken(users', sessions', t)
                      = VerifySessionToken(users, sessions, t)]_vars
    /\ [][resp'.op = "login" /\ resp'.status = 200 =>
            /\ resp'.data.token \notin Issued(sessions)
            /\ VerifySessionToken(users', sessions', resp'.data.token).id
                  = GetUserByUsername(users, resp'.req.username)]_vars

\* two sessions of two different users exist, and messages have since been
\* sent and marked read
C5_Witness ==
    /\ Len(sessions) = 2
    /\ sessions[1].user_id # sessions[2].user_id
    /\ resp.op = "mark_read" /\ resp.status = 200
    /\ \E i \in 1..Len(messages) : messages[i].is_read

\* ids listed in a get_messages response
ListedIds == {resp.data[k].id : k \in 1..Len(resp.data)}

\* C6: a get_messages response for B lists every message addressed to B that
\* is still unread and no message that is read; a message stays unread until
\* its recipient's mark_read; mark_read(m) by the recipient B answers 200 and
\* leaves m read, whether m was unread or already read.
C6_InboxUntilRead ==
    /\ [](resp.op = "get_messages" /\ resp.status = 200 =>
            \A i \in 1..Len(messages) :
                messages[i].recipient_id = Caller.id
                    => (i \in ListedIds <=> ~messages[i].is_read))
    /\ [][\A i \in 1..Len(messages) :
            (/\ resp'.op = "mark_read"
             /\ resp'.req.token \in Issued(sessions)
             /\ resp'.req.message_id = i
             /\ VerifySessionToken(users, sessions, resp'.req.token).id
                   = messages[i].recipient_id)
            => resp'.status = 200 /\ messages'[i].is_read]_vars
    /\ [][\A i \in 1..Len(messages) :
            (~messages[i].is_read /\ messages'[i].is_read)
            => /\ resp'.op = "mark_read"
               /\ resp'.req.message_id = i]_vars

\* the caller of get_messages has one message already read and one still
\* unread; the response lists the unread one only
C6_Witness ==
    /\ resp.op = "get_messages" /\ resp.status = 200
    /\ \E i, j \in 1..Len(messages) :
          /\ messages[i].recipient_id = Caller.id
          /\ messages[j].recipient_id = Caller.id
          /\ messages[i].is_read /\ ~messages[j].is_read
          /\ ListedIds = {j}

\* C7: mark_read requested by an authenticated user who is not the recipient
\* of the message, or for a message id that does not exist, does not return
\* a success response.
C7_NonRecipientFails ==
    (/\ resp.op = "mark_read"
     /\ resp.req.token \in Issued(sessions)
     /\ ~IsRecipient(messages, resp.req.message_id, Caller.id))
    => resp.status # 200

\* C8: mark_read requested by an authenticated user other than the message's
\* recipient leaves the messages table unchanged, and a message goes from
\* unread to read only in a mark_read of that message by its recipient.
C8_OnlyRecipientMarks ==
    [][/\ (/\ resp'.op = "mark_read"
           /\ resp'.req.token \in Issued(sessions)
           /\ ~IsRecipient(messages, resp'.req.message_id,
                  VerifySessionToken(users, sessions, resp'.req.token).id))
          => messages' = messages
       /\ \A i \in 1..Len(messages) :
            (~messages[i].is_read /\ messages'[i].is_read)
            => /\ resp'.op = "mark_read"
               /\ resp'.status = 200
               /\ resp'.req.message_id = i
               /\ VerifySessionToken(users, sessions, resp'.req.token).id
                     = messages[i].recipient_id]_vars

\* a user who is neither sender nor recipient of an unread message has just
\* requested mark_read for it
C8_Witness ==
    /\ resp.op = "mark_read" /\ resp.status = 200
    /\ resp.req.token \in Issued(sessions)
    /\ resp.req.message_id \in 1..Len(messages)
    /\ Caller.id # messages[resp.req.message_id].recipient_id
    /\ Caller.id # messages[resp.req.message_id].sender_id
    /\ ~messages[resp.req.message_id].is_read

\* C9: for every stored message, is_read is true if and only if read_at is
\* set.
C9_ReadAtIffRead ==
    \A i \in 1..Len(messages) :
        messages[i].is_read <=> messages[i].read_at # NULL

\* one message has been marked read and another is still unread
C9_Witness ==
    \E i, j \in 1..Len(messages) :
        /\ messages[i].is_read /\ messages[i].read_at # NULL
        /\ ~messages[j].is_read

\* C10: once a message has is_read true, no request of any user returns it
\* to is_read false.
C10_ReadMonotonic ==
    [][\A i \in 1..Len(messages) :
          messages[i].is_read
              => i \in 1..Len(messages') /\ messages'[i].is_read]_vars

\* a message that is read has since been the target of a mark_read by a
\* user who is not its recipient, and is still read
C10_Witness ==
    /\ resp.op = "mark_read" /\ resp.status = 200
    /\ resp.req.token \in Issued(sessions)
    /\ resp.req.message_id \in 1..Len(messages)
    /\ messages[resp.req.message_id].recipient_id # Caller.id
    /\ messages[resp.req.message_id].is_read

\* C11: a mark_read of a message that is already read leaves the message
\* as it was, read_at included: once a message is read its read_at never
\* changes again.
C11_ReadAtWrittenOnce ==
    [][\A i \in 1..Len(messages) :
          messages[i].is_read
              => messages'[i].read_at = messages[i].read_at]_vars

\* ids listed in the message list of response r
ListedIn(r) == {r.data[k].id : k \in 1..Len(r.data)}

\* C12: a get_messages response for user U lists exactly the stored messages
\* whose recipient is U and that are unread, each once, with the stored
\* creation time, newest first.
C12_InboxExact ==
    resp.op = "get_messages" /\ resp.status = 200 =>
        /\ ListedIn(resp) = {i \in 1..Len(messages) :
                               /\ messages[i].recipient_id = Caller.id
                               /\ ~messages[i].is_read}
        /\ Len(resp.data) = Cardinality(ListedIn(resp))
        /\ \A k \in 1..Len(resp.data) :
              resp.data[k].timestamp = messages[resp.data[k].id].created_at
        /\ \A k, l \in 1..Len(resp.data) :
              k < l => resp.data[k].timestamp >= resp.data[l].timestamp

\* the inbox returned holds two messages created at different times, the
\* newer one first, while another user's inbox request would list none
C12_Witness ==
    /\ resp.op = "get_messages" /\ resp.status = 200
    /\ Len(resp.data) = 2
    /\ resp.data[1].timestamp > resp.data[2].timestamp
    /\ resp.data[1].id > resp.data[2].id

\* C13: get_messages changes no message (is_read and read_at stay as they
\* were), and two get_messages requests of the same session in a row, with
\* nothing in between, return the same messages.
C13_InboxQueryReadOnly ==
    [][resp'.op = "get_messages" =>
          /\ messages' = messages
          /\ (/\ resp.op = "get_messages"
              /\ resp.status = 200 /\ resp'.status = 200
              /\ resp'.req.token = resp.req.token)
             => ListedIn(resp') = ListedIn(resp)]_vars

\* an inbox request has returned messages, and they are all still unread
C13_Witness ==
    /\ resp.op = "get_messages" /\ resp.status = 200
    /\ ListedIn(resp) # {}
    /\ \A i \in ListedIn(resp) : ~messages[i].is_read
    /\ \E j \in 1..Len(messages) : messages[j].is_read

\* stored messages exchanged between users a and b (ids of users, b may be
\* NULL when no such user is registered)
Between(a, b) ==
    {i \in 1..Len(messages) :
        \/ messages[i].sender_id = a /\ messages[i].recipient_id = b
        \/ messages[i].sender_id = b /\ messages[i].recipient_id = a}

\* ids of the messages in the conversation list c, in the order returned
IdsOf(c) == [k \in 1..Len(c) |-> c[k].id]

\* C14: the conversation between A and B is the same for both: A's view
\* and B's view hold exactly the messages exchanged between them, each once,
\* oldest first, and in the same order.
C14_ConversationSymmetric ==
    /\ [](resp.op = "get_conversation" /\ resp.status = 200 =>
            LET other == GetUserByUsername(users, resp.req.username)
                ids == IdsOf(resp.data)
            IN /\ {ids[k] : k \in 1..Len(ids)} = Between(Caller.id, other)
               /\ Len(ids) = Cardinality(Between(Caller.id, other))
               /\ \A k, l \in 1..Len(ids) :
                     k < l => messages[ids[k]].created_at
                                  <= messages[ids[l]].created_at)
    /\ [][(/\ resp.op = "get_conversation" /\ resp.status = 200
           /\ resp'.op = "get_conversation" /\ resp'.status = 200
           /\ resp'.req.token # resp.req.token
           /\ resp.req.username
                 = VerifySessionToken(users, sessions,
                                      resp'.req.token).username
           /\ resp'.req.username = Caller.username
           /\ resp.req.username # Caller.username)
          => IdsOf(resp'.data) = IdsOf(resp.data)]_vars

\* C15: a get_conversation_v2 response reports as total_messages the number
\* of messages exchanged between the caller and the named user, and
\* has_more is true exactly when offset + limit < total_messages.
C15_PageCounters ==
    resp.op = "get_conversation_v2" /\ resp.status = 200 =>
        LET other == GetUserByUsername(users, resp.req.username)
            total == Cardinality(Between(Caller.id, other))
        IN /\ resp.data.total_messages = total
           /\ resp.data.has_more
                 = (resp.req.offset + resp.req.limit < total)
           /\ resp.req.offset + resp.req.limit >= total
                 => ~resp.data.has_more

\* the last page of a two-message conversation: offset + limit equals the
\* total, and has_more is false
C15_Witness ==
    /\ resp.op = "get_conversation_v2" /\ resp.status = 200
    /\ resp.data.total_messages = 2
    /\ resp.req.limit = 1 /\ resp.req.offset = 1
    /\ Len(resp.data.conversation) = 1
    /\ ~resp.data.has_more

\* C16: with at least two messages in the conversation, the page
\* limit=1, offset=0 and the page limit=1, offset=1 requested one after the
\* other each hold one message, and not the same one.
C16_PagesDisjoint ==
    [][(/\ resp.op = "get_conversation_v2" /\ resp.status = 200
        /\ resp'.op = "get_conversation_v2" /\ resp'.status = 200
        /\ resp'.req.token = resp.req.token
        /\ resp'.req.username = resp.req.username
        /\ resp.req.limit = 1 /\ resp.req.offset = 0
        /\ resp'.req.limit = 1 /\ resp'.req.offset = 1
        /\ resp.data.total_messages >= 2)
       => /\ Len(resp.data.conversation) = 1
          /\ Len(resp'.data.conversation) = 1
          /\ resp.data.conversation[1].id
                # resp'.data.conversation[1].id]_vars

\* C17: a request to a token-protected endpoint whose token no login has
\* issued (absent, empty, unknown, or no body at all) is answered 401 and
\* leaves users, sessions, messages, activity log and device tokens unchanged.
C17_UnauthorizedFirst ==
    [][(resp'.op \in Protected /\ resp'.req.token \notin Issued(sessions))
          => resp'.status = 401 /\ store' = store]_vars

\* C18: send_message answers 401 for an unissued token whatever the other
\* fields are, 400 for an issued token with an empty recipient or body (after
\* trimming), 404 for an issued token, non-empty fields and an unregistered
\* recipient; in all three cases the messages table is unchanged.
C18_SendCheckOrder ==
    [][resp'.op = "send_message" =>
          LET valid == resp'.req.token \in Issued(sessions)
              present == resp'.req.recipient # <<>> /\ resp'.req.message # <<>>
              known == resp'.req.recipient \in Usernames(users)
          IN /\ ~valid => resp'.status = 401
             /\ valid /\ ~present => resp'.status = 400
             /\ valid /\ present /\ ~known => resp'.status = 404
             /\ valid /\ present /\ known => resp'.status = 200
             /\ resp'.status \in {401, 400, 404} => messages' = messages]_vars

\* a send with an unissued token and an empty recipient was answered 401,
\* while a user is registered and logged in
C18_Witness ==
    /\ resp.op = "send_message" /\ resp.status = 401
    /\ resp.req.recipient = <<>>
    /\ sessions # <<>>

\* C19: a signup whose username or password is empty after trimming, whose
\* username is shorter than 3 or whose password is shorter than 6 is answered
\* 400 with the handler's own message, not the store's, and creates no user;
\* an empty field is reported as missing whatever the lengths are.
C19_SignupValidation ==
    [][(resp'.op = "signup" /\ ~ValidSignup(resp'.req)) =>
          /\ resp'.status = 400
          /\ users' = users
          /\ resp'.msg \in {"Username and password required",
                            "Password must be at least 6 characters",
                            "Username must be at least 3 characters"}
          /\ (resp'.req.username = <<>> \/ resp'.req.password = <<>>)
                => resp'.msg = "Username and password required"]_vars

\* a signup with no username and a too short password was answered 400 with
\* the presence message
C19_Witness ==
    /\ resp.op = "signup" /\ resp.status = 400
    /\ resp.req.username = <<>>
    /\ resp.req.password = short
    /\ resp.msg = "Username and password required"

\* C20: a send answered 404 names a username no user has and stores nothing;
\* the messages table changes only by a send answered 200, which appends one
\* unread message from the caller to the user named, with the body sent; and
\* get_messages returns one entry per unread message of the caller, carrying
\* the sender's username and the stored body.
C20_FailedSendNotDelivered ==
    /\ [][resp'.op = "send_message" /\ resp'.status = 404 =>
             /\ messages' = messages
             /\ resp'.req.recipient \notin Usernames(users)]_vars
    /\ [][messages' # messages =>
             /\ resp'.op = "send_message" /\ resp'.status = 200
             /\ Len(messages') = Len(messages) + 1
             /\ \A i \in 1..Len(messages) : messages'[i] = messages[i]
             /\ LET m == messages'[Len(messages')]
                    sender == VerifySessionToken(users, sessions,
                                                 resp'.req.token)
                IN /\ sender.valid /\ m.sender_id = sender.id
                   /\ users[m.recipient_id].username = resp'.req.recipient
                   /\ m.message = resp'.req.message
                   /\ ~m.is_read]_vars
    /\ [](resp.op = "get_messages" /\ resp.status = 200 =>
             /\ Len(resp.data) = Cardinality(
                   {i \in 1..Len(messages) :
                       /\ messages[i].recipient_id = Caller.id
                       /\ ~messages[i].is_read})
             /\ \A k \in 1..Len(resp.data) :
                   LET m == messages[resp.data[k].id]
                   IN /\ resp.data[k].sender = users[m.sender_id].username
                      /\ resp.data[k].message = m.message)

\* bob registered after alice, alice's one stored message went to bob, and
\* bob's get_messages returned exactly one entry: sender alice, body hi
C20_Witness ==
    /\ resp.op = "get_messages" /\ resp.status = 200
    /\ Len(users) = 2 /\ users[1].username = alice /\ users[2].username = bob
    /\ Caller.username = bob
    /\ Len(messages) = 1
    /\ Len(resp.data) = 1
    /\ resp.data[1].sender = alice
    /\ resp.data[1].message = hi

\* the password sent is not the one stored for the registered user named
WrongPassword(request) ==
    /\ request.username \in Usernames(users)
    /\ ~VerifyPassword(
          users[GetUserByUsername(users, request.username)].password_hash,
          request.password)

\* C21: a login naming a registered user with a wrong password and a login
\* naming a username no user has get the same response: status 401, the
\* message "Invalid credentials" and no data.
C21_LoginNoEnumeration ==
    [][(/\ resp'.op = "login"
        /\ resp'.req.username # <<>> /\ resp'.req.password # <<>>
        /\ \/ resp'.req.username \notin Usernames(users)
           \/ WrongPassword(resp'.req))
       => /\ resp'.status = 401
          /\ resp'.msg = "Invalid credentials"
          /\ resp'.data = NoData
          /\ users' = users /\ sessions' = sessions]_vars

\* a login with a wrong password for a registered user was refused, while
\* another username sent by clients is still unregistered
C21_Witness ==
    /\ resp.op = "login" /\ resp.status = 401
    /\ resp.msg = "Invalid credentials"
    /\ WrongPassword(resp.req)
    /\ Alice \notin Usernames(users)

\* C22: a successful login appends one session whose token no session held
\* before, and every token issued before still resolves, to the same user as
\* before, after any step.
C22_SessionsAccumulate ==
    /\ [][resp'.op = "login" /\ resp'.status = 200 =>
             /\ resp'.data.token \notin Issued(sessions)
             /\ Len(sessions') = Len(sessions) + 1
             /\ sessions'[Len(sessions')].token = resp'.data.token
             /\ sessions'[Len(sessions')].user_id = resp'.data.user_id]_vars
    /\ [][\A t \in Issued(sessions) :
             /\ VerifySessionToken(users, sessions, t).valid
             /\ VerifySessionToken(users', sessions', t)
                   = VerifySessionToken(users, sessions, t)]_vars

\* one user holds two sessions with different tokens, and both resolve to
\* that user after the second login
C22_Witness ==
    /\ resp.op = "login" /\ resp.status = 200
    /\ Len(sessions) = 2
    /\ sessions[1].user_id = sessions[2].user_id
    /\ sessions[1].token # sessions[2].token
    /\ \A i \in 1..2 :
          VerifySessionToken(users, sessions, sessions[i].token).id
              = sessions[i].user_id

\* C23: the activity log only grows at its end: after every step each
\* entry of the log before the step is still there, at the same position and
\* with the same content.
C23_LogAppendOnly ==
    [][/\ Len(activity_logs') >= Len(activity_logs)
       /\ \A i \in 1..Len(activity_logs) :
             activity_logs'[i] = activity_logs[i]]_vars

\* the log holds the entry of a signup followed by the entry of a login
C23_Witness ==
    /\ Len(activity_logs) = 2
    /\ activity_logs[1].action = "user_signup"
    /\ activity_logs[2].action = "user_login"
    /\ resp.op = "login"

C25_ProfileReturned ==
    (resp.op = "get_user_profile" /\ resp.req.token \in Issued(sessions)) =>
        /\ resp.status = 200
        /\ resp.data.id = Caller.id
        /\ resp.data.username = users[Caller.id].username
        /\ resp.data.email = users[Caller.id].email
        /\ resp.data.created_at = users[Caller.id].created_at
        /\ resp.data.last_login = users[Caller.id].last_login

\* C26: in every reachable state every stored message has a body that is
\* non-empty and has no leading or trailing whitespace, and its sender_id
\* and recipient_id are ids of stored users.
C26_MessagesWellFormed ==
    \A i \in 1..Len(messages) :
        /\ Len(messages[i].message) > 0
        /\ Strip(messages[i].message) = messages[i].message
        /\ messages[i].sender_id \in 1..Len(users)
        /\ messages[i].recipient_id \in 1..Len(users)

\* a message sent with whitespace around its body is stored trimmed, and a
\* send whose body was only whitespace has just been refused
C26_Witness ==
    /\ Len(messages) = 1
    /\ messages[1].message = hi
    /\ resp.op = "send_message" /\ resp.status = 400
    /\ resp.req.recipient # <<>>
    /\ resp.req.message = <<>>

\* C29: a valid signup with a username no user has and an email a stored
\* user holds creates no user, and its outcome is not the outcome of a
\* duplicate username, "Username already exists".
C29_DuplicateEmailDistinct ==
    [][(/\ resp'.op = "signup" /\ ValidSignup(resp'.req)
        /\ resp'.req.username \notin Usernames(users)
        /\ resp'.req.email # None
        /\ resp'.req.email \in Emails(users))
       => /\ users' = users
          /\ resp'.status = 400
          /\ resp'.msg # "Username already exists"]_vars

\* C30: a get_all_users response for user U lists the ids of all active
\* users other than U, each once, with the stored username, and not U.
C30_ContactsExcludeCaller ==
    resp.op = "get_all_users" /\ resp.status = 200 =>
        LET listed == {resp.data[k].id : k \in 1..Len(resp.data)}
        IN /\ listed = {i \in 1..Len(users) :
                           users[i].is_active /\ i # Caller.id}
           /\ Len(resp.data) = Cardinality(listed)
           /\ Caller.id \notin listed
           /\ \A k \in 1..Len(resp.data) :
                 resp.data[k].username = users[resp.data[k].id].username

\* the second of two registered users asked for the contact list and got
\* the first one, and only that one
C30_Witness ==
    /\ resp.op = "get_all_users" /\ resp.status = 200
    /\ Len(users) = 2
    /\ Caller.id = 2
    /\ Len(resp.data) = 1
    /\ resp.data[1].id = 1

\* the error messages the handlers and the credential store word themselves
FixedErrors ==
    {"Username and password required",
     "Password must be at least 6 characters",
     "Username must be at least 3 characters",
     "Username already exists", "Invalid credentials",
     "Unauthorized - Invalid or expired token", "Unauthorized",
     "Recipient and message required", "Recipient user not found",
     "Device token required", "Internal server error"}

\* C28: every response with status 400, 401, 404 or 500 carries one of the
\* fixed error messages, never the text of an exception the store raised.
C28_NoRawExceptionText ==
    resp.status \in {400, 401, 404, 500} => resp.msg \in FixedErrors

\* C27: with send_message and mark_read requests interleaved at the
\* granularity of their store accesses, the messages table changes only in
\* two ways: the INSERT step of a send appends exactly one row, carrying that
\* request's sender, recipient and body, and keeps every other row; the
\* UPDATE step of a mark_read changes no row but the one it names, which is
\* read afterwards when the caller is its recipient. No step removes a
\* message or makes a read message unread.
C27_ConcurrentMessaging ==
    /\ [][\/ messages' = messages
          \/ \E w \in Workers :
                /\ pc[w] = "send_insert" /\ pc'[w] = "send_log"
                /\ Len(messages') = Len(messages) + 1
                /\ \A i \in 1..Len(messages) : messages'[i] = messages[i]
                /\ LET m == messages'[Len(messages')]
                   IN /\ m.sender_id = loc[w].user_id
                      /\ m.recipient_id = loc[w].recipient_id
                      /\ m.message = loc[w].message
                      /\ ~m.is_read
          \/ \E w \in Workers :
                /\ pc[w] = "mark_update" /\ pc'[w] = "mark_log"
                /\ Len(messages') = Len(messages)
                /\ \A i \in 1..Len(messages) :
                      i # loc[w].message_id => messages'[i] = messages[i]
                /\ IsRecipient(messages, loc[w].message_id, loc[w].user_id)
                      => messages'[loc[w].message_id].is_read]_vars
    /\ [][/\ Len(messages') >= Len(messages)
          /\ \A i \in 1..Len(messages) :
                messages[i].is_read => messages'[i].is_read]_vars

\* two requests are past their store access at the same time: worker w1 has
\* stored the second message, from another sender than the first, and
\* worker w2 has marked the first message read; the second is still unread
C27_Witness ==
    /\ pc["w1"] = "send_log" /\ pc["w2"] = "mark_log"
    /\ Len(messages) = 2
    /\ messages[1].sender_id # messages[2].sender_id
    /\ messages[1].recipient_id = messages[2].recipient_id
    /\ loc["w2"].message_id = 1
    /\ messages[1].is_read /\ ~messages[2].is_read

\* C31: each page of get_conversation_v2 lists its messages oldest first
\* (no entry is followed by one stored earlier), and an entry's
\* is_own_message is true exactly when the stored sender of that message is
\* the caller, also when the caller reads the conversation with themself.
C31_PageOldestFirstOwn ==
    resp.op = "get_conversation_v2" /\ resp.status = 200 =>
        LET c == resp.data.conversation
        IN  /\ \A k \in 1..Len(c) - 1 : c[k].timestamp <= c[k + 1].timestamp
            /\ \A k \in 1..Len(c) :
                  /\ c[k].id \in 1..Len(messages)
                  /\ c[k].timestamp = messages[c[k].id].created_at
                  /\ c[k].is_own_message
                        = (messages[c[k].id].sender_id = Caller.id)

\* a page of two messages stored at different times, the older one first,
\* the first written by the other user and the second by the caller
C31_Witness ==
    /\ resp.op = "get_conversation_v2" /\ resp.status = 200
    /\ Len(resp.data.conversation) = 2
    /\ resp.data.conversation[1].timestamp
          < resp.data.conversation[2].timestamp
    /\ ~resp.data.conversation[1].is_own_message
    /\ resp.data.conversation[2].is_own_message
    /\ resp.req.username # Caller.username

\* the session row holding token t is marked invalid, or has an expiry that
\* has passed at time now
Lapsed(ss, t, now) ==
    \E i \in 1..Len(ss) :
        /\ ss[i].token = t
        /\ \/ ~ss[i].is_valid
           \/ ss[i].expires_at # NULL /\ ss[i].expires_at < now

Unresolved(us, ss, t) ==
    \/ ~\E i \in 1..Len(ss) : ss[i].token = t /\ ss[i].is_valid
    \/ \E i \in 1..Len(ss) :
          /\ ss[i].token = t /\ ss[i].is_valid
          /\ ss[i].user_id \notin 1..Len(us)

ActiveUser(us, username) ==
    IF \E i \in 1..Len(us) : us[i].username = username /\ us[i].is_active
    THEN CHOOSE i \in 1..Len(us) :
            us[i].username = username /\ us[i].is_active
    ELSE NULL

\* C34: a login that fails (unknown username, wrong password, deactivated
\* user, or any other refusal) adds no session and leaves every last_login
\* as it was; a login answered 200 sets the last_login of the user who
\* logged in, appends exactly one session of that user holding the returned
\* token, and changes no other user and no earlier session.
C34_LoginFrame ==
    [][resp'.op = "login" =>
        LET uid == ActiveUser(users, resp'.req.username)
        IN  /\ (\/ uid = NULL
                \/ ~VerifyPassword(users[uid].password_hash,
                                   resp'.req.password))
                  => resp'.status # 200
            /\ resp'.status # 200 => users' = users /\ sessions' = sessions
            /\ resp'.status = 200 =>
                  /\ users' = [users EXCEPT ![uid].last_login = clock']
                  /\ sessions' = Append(sessions,
                        [user_id |-> uid, token |-> resp'.data.token,
                         created_at |-> clock', expires_at |-> NULL,
                         is_valid |-> TRUE])
                  /\ resp'.data.token \notin Issued(sessions)]_vars

\* alice has just logged in beside the stored session; bob, deactivated,
\* has no last_login
C34_Witness ==
    /\ resp.op = "login" /\ resp.status = 200
    /\ resp.req.username = alice
    /\ Len(sessions) = 2
    /\ sessions[2].user_id = 1
    /\ users[1].last_login = clock
    /\ ~users[2].is_active /\ users[2].last_login = NULL

\* C35: every step keeps every stored message, with its body, sender_id,
\* recipient_id and created_at as they were stored (only is_read and read_at
\* may differ), and keeps every stored user with its id and username.
C35_MessagesImmutable ==
    [][/\ \A i \in 1..Len(messages) :
            /\ i \in 1..Len(messages')
            /\ [messages'[i] EXCEPT !.is_read = FALSE, !.read_at = NULL]
                 = [messages[i] EXCEPT !.is_read = FALSE, !.read_at = NULL]
       /\ \A i \in 1..Len(users) :
            /\ i \in 1..Len(users')
            /\ users'[i].username = users[i].username]_vars

\* the first of two stored messages has been marked read at a later time
\* than it was stored, and two users exist
C35_Witness ==
    /\ Len(messages) = 2 /\ Len(users) = 2
    /\ messages[1].is_read
    /\ messages[1].read_at > messages[1].created_at
    /\ resp.op = "mark_read" /\ resp.status = 200

\* the messages of the last batch fetched that the client has not yet
\* displayed and played
Unprocessed ==
    {loc[Receiver].batch[k] :
        k \in loc[Receiver].pos + 1..Len(loc[Receiver].batch)}

\* C36 as stated: a message becomes read on the server only in the
\* receiver's mark step for the one message it has just displayed and
\* played; the client goes through the batch one message at a time in the
\* order returned; every message of the batch it has not yet gone through is
\* unread on the server, also when the client has been stopped, and the
\* next get_messages lists it.
C36_Original ==
    /\ [][\A i \in 1..Len(messages) :
            (messages'[i].is_read /\ ~messages[i].is_read)
               => /\ pc[Receiver] = "mark"
                  /\ i = loc[Receiver].batch[loc[Receiver].pos]
                  /\ i \in loc[Receiver].shown
                  /\ i \in loc[Receiver].played]_vars
    /\ [](\A i \in Unprocessed : ~messages[i].is_read)
    /\ [][(resp'.op = "get_messages" /\ resp'.status = 200)
            => Unprocessed \subseteq ListedIn(resp')]_vars

\* C36 amended: a message becomes read on the server only in the receiver's
\* mark step for the one message it has just displayed (played or not);
\* the client goes through the batch one message at a time in the order
\* returned, the next one only after the mark request for the one before;
\* every message of the batch it has not yet gone through is unread on the
\* server, also when the client has been stopped, and the next get_messages
\* lists it.
C36_MarkAfterShown ==
    /\ [][\A i \in 1..Len(messages) :
            (messages'[i].is_read /\ ~messages[i].is_read)
               => /\ pc[Receiver] = "mark"
                  /\ i = loc[Receiver].batch[loc[Receiver].pos]
                  /\ i \in loc[Receiver].shown]_vars
    /\ [][loc'[Receiver].shown # loc[Receiver].shown
            => /\ pc[Receiver] = "play"
               /\ loc'[Receiver].batch = loc[Receiver].batch
               /\ loc'[Receiver].pos = loc[Receiver].pos + 1
               /\ loc'[Receiver].shown = loc[Receiver].shown
                     \cup {loc[Receiver].batch[loc'[Receiver].pos]}]_vars
    /\ [](loc[Receiver].played \subseteq loc[Receiver].shown)
    /\ [](\A i \in Unprocessed : ~messages[i].is_read)
    /\ [][(resp'.op = "get_messages" /\ resp'.status = 200)
            => Unprocessed \subseteq ListedIn(resp')]_vars

\* the client was stopped after the first of two fetched messages and has
\* logged in again: the first, displayed but not played, is read, the
\* second is still unread
C36_Witness ==
    /\ pc[Receiver] = "idle"
    /\ Len(loc[Receiver].batch) = 2
    /\ loc[Receiver].pos = 1
    /\ loc[Receiver].batch[1] \in loc[Receiver].shown
    /\ loc[Receiver].batch[1] \notin loc[Receiver].played
    /\ messages[loc[Receiver].batch[1]].is_read
    /\ ~messages[loc[Receiver].batch[2]].is_read
    /\ Len(sessions) = 3

\* the number of rows LIMIT limit OFFSET offset returns from count rows
PageLength(count, limit, offset) ==
    LET off == IF offset < 0 THEN 0 ELSE offset
        len == IF limit < 0 THEN count - off
               ELSE Min(count, off + limit) - off
    IN  IF len < 0 THEN 0 ELSE len

\* C37: a get_conversation_v2 response describes the conversation at one
\* moment: the page holds as many messages as the page of a conversation
\* of total_messages messages holds, and has_more is computed from that
\* same total, also when a send into the conversation is served while the
\* request is.
C37_PageSnapshot ==
    (resp.op = "get_conversation_v2" /\ resp.status = 200) =>
        /\ Len(resp.data.conversation)
              = PageLength(resp.data.total_messages, resp.req.limit,
                           resp.req.offset)
        /\ resp.data.has_more
              = (resp.req.offset + resp.req.limit
                    < resp.data.total_messages)


====
